---- MODULE Spec2Model ----
(***************************************************************************)
(* Model of the reminder scheduling engine of the Telegram notes bot:      *)
(* MultiUserScheduler (multi_user_scheduler.py), the single-user           *)
(* ReminderScheduler (scheduler.py) where its code is the same, and the    *)
(* parts of DatabaseStorage the scheduler reads.                           *)
(*                                                                         *)
(* Time is counted in minutes since 00:00 of the first day of a month.     *)
(* datetime.now() is modelled truncated to the minute: every instant the   *)
(* code compares it with (send_time, the next midnight) is minute-aligned, *)
(* so `now >= send_time` and `wait_seconds > 0` are decided exactly.       *)
(***************************************************************************)
EXTENDS Integers, Sequences, FiniteSets, TLC

\* ------------------------------------------------------------------ bounds
\* Cap on the dispatcher threads ever spawned (the code spawns without bound).
MaxDisp == 2
\* Cap on the control-loop threads ever started.
MaxLoops == 2
\* Last day of the month the clock may reach.
MaxDay == 1
\* Largest interval_days drawn for the reminder-day test.
MaxInterval == 6
\* Longest note list drawn for a delivery.
MaxNotes == 2

\* ------------------------------------------------------- program constants
MinutesPerHour == 60
MinutesPerDay == 1440
\* _sleep_with_check(3600): the one-hour re-check, in minutes.
HourSleep == 60
\* _sleep_with_check(300): the error back-off, in minutes.
ErrorSleep == 5

\* ------------------------------------------------------------------- time
DaysOfMonth == 1..31
Midnight(t) == t - (t % MinutesPerDay)
HourOf(t) == (t % MinutesPerDay) \div MinutesPerHour
MinuteOf(t) == t % MinutesPerHour
\* date.day of the instant t
DayOfMonth(t) == (t \div MinutesPerDay) + 1
At(day, hour, minute) == (day - 1) * MinutesPerDay + hour * MinutesPerHour + minute

\* Python's a % n for a >= 0: the result has the sign of n.
PyMod(a, n) == IF n > 0 THEN a % n ELSE -((-a) % (-n))

\* now.replace(hour=h, minute=m, second=0, microsecond=0)
ReplaceHM(t, h, m) == Midnight(t) + h * MinutesPerHour + m

\* ------------------------------------------------------------------ state
VARIABLES
  config,               \* Config: reminder_interval_days, reminder_start_hour, reminder_end_hour
  running,              \* MultiUserScheduler._running
  loops,                \* the control-loop threads started so far; _thread is the last
  disp,                 \* the dispatcher threads spawned so far (_handle_user_reminder)
  user_reminder_times,  \* MultiUserScheduler._user_reminder_times (a dict)
  store,                \* the notes table: user -> notes, newest first
  now,                  \* the wall clock, in minutes
  cli,                  \* the caller of start()/stop(): "idle", or "joining" inside stop()
  tst,                  \* the current send_test_reminder call
  rs,                   \* the single-user ReminderScheduler: _running and its control loops
  result,               \* the send time computed last, when the computation is checked alone
  last_call,            \* the last call of start() or stop(), and _running as it found it
  note_owner,           \* Note.user_id of every row the notes table ever held, by Note.id
  dialog,               \* the /clear dialog of NotesBot: the notes listed, the button pressed
  boot                  \* main(): the position of its retry loop, attempt and retry_delay

vars == <<config, running, loops, disp, user_reminder_times, store, now, cli, tst, rs,
          result, last_call, note_owner,
              dialog, boot>>

Users == {"u1", "u2"}
\* the order in which get_all_user_ids returns the users
UserOrder == <<"u1", "u2">>

TypedKinds == {"image", "voice", "document", "video", "audio"}
\* metadata['file_path']: key missing, empty string, a path that does not exist, a
\* path that exists and cannot be opened, a path that opens
FilePaths == {"nokey", "empty", "gone", "unreadable", "ok"}

\* the single-user scheduler before start(); no send time computed yet
\* (chat_id and notes are what the FileStorage it reads holds)
RsIdle == [running |-> FALSE, threads |-> <<>>, chat_id |-> "", notes |-> <<>>]
NoResult == <<>>
\* neither start() nor stop() was called yet
NoCall == [op |-> "none", was_running |-> FALSE]
\* no /clear was sent yet
NoDialog == [pc |-> "none", user |-> "u1", shown |-> <<>>, pressed |-> 0,
             reported |-> <<>>, removed |-> <<>>, reply |-> "none"]
\* main() at its entry: max_retries = 10, retry_delay = 30, before the first attempt
MaxRetries == 10
FirstRetryDelay == 30
MaxRetryDelay == 300
\* main() at the head of `for attempt in range(max_retries)`: the loop variable,
\* retry_delay, and as history the starts made, the crashes caught, the
\* time.sleep calls completed, how the last attempt ended and the exit status
BootInit == [pc |-> "attempt", attempt |-> 0, retry_delay |-> FirstRetryDelay,
             starts |-> 0, crashes |-> 0, waits |-> <<>>, ended |-> "none",
             status |-> "none"]

Range(s) == {s[i] : i \in DOMAIN s}

\* ---------------------------------------------------------------- storage
\* DatabaseStorage.get_notes_with_metadata: the user's notes, or [] when the query
\* raised an SQLAlchemyError (the method logs it and returns the empty list)
get_notes_with_metadata(user_id) == {store[user_id], <<>>}

\* DatabaseStorage.get_notes_count: the number of the user's rows, or 0 when the
\* query raised an SQLAlchemyError
get_notes_count(user_id) == {Len(store[user_id]), 0}

\* DatabaseStorage.get_all_user_ids: the distinct owners of the notes table (a
\* query that fails returns [], the value an empty table gives)
get_all_user_ids == SelectSeq(UserOrder, LAMBDA u : store[u] # <<>>)

\* ---------------------------------------------------------- _send_reminder
\* A delivery is the part of a thread's record _send_reminder works on:
\*   pc        "send" (entered), "fallback" (the typed send raised), "done"
\*   notes     the list handed to _send_reminder
\*   selected  <<>> or <<the note random.choice returned>>
\*   message   the text built from the header and the content
\*   calls     the Notification Sender calls made, in order
\*   outcome   "sent" (the info log at the end) or "failed" (the error log)

Header == "Reminder:"
\* message = f"<header>\n{content}"
Message(content) == <<Header, content>>

\* selected_note.get('note_type', 'text')
NoteTypeOf(note) == IF note.note_type = "absent" THEN "text" ELSE note.note_type

\* `if file_path and os.path.exists(file_path)`
FileFound(note) == note.file_path \in {"unreadable", "ok"}

\* a dispatch that sends voice notes as audio and audio notes as voice
TypedCall_Swapped(note_type) ==
  CASE note_type = "image" -> "send_photo"
    [] note_type = "voice" -> "send_audio"
    [] note_type = "document" -> "send_document"
    [] note_type = "video" -> "send_video"
    [] note_type = "audio" -> "send_voice"

\* the telegram.Bot method each branch of _send_reminder calls
TypedCall(note_type) ==
  CASE note_type = "image" -> "send_photo"
    [] note_type = "voice" -> "send_voice"
    [] note_type = "document" -> "send_document"
    [] note_type = "video" -> "send_video"
    [] note_type = "audio" -> "send_audio"

\* One bot call: what is recorded of it. ok = FALSE: the call raised.
Call(cap, text, ok) == [cap |-> cap, text |-> text, ok |-> ok]

\* self.bot.send_message(chat_id=user_id, text=message), as the last statement of
\* a branch: on success the info log, on an exception the outer except logs it.
TextSend(d, note, ok) ==
  [d EXCEPT !.pc = "done",
            !.selected = <<note>>,
            !.message = Message(note.content),
            !.calls = Append(@, Call("send_message", Message(note.content), ok)),
            !.outcome = IF ok THEN "sent" ELSE "failed"]

\* `with open(file_path, 'rb') as f: self.bot.send_<kind>(..., caption=message)`;
\* an exception is caught by the inner except, which goes on to the text send.
TypedSend(d, note, ok) ==
  [d EXCEPT !.pc = IF ok THEN "done" ELSE "fallback",
            !.selected = <<note>>,
            !.message = Message(note.content),
            !.calls = Append(@, Call(TypedCall(NoteTypeOf(note)), Message(note.content), ok)),
            !.outcome = IF ok THEN "sent" ELSE @]

\* open() raised before any bot call was made: the inner except takes over.
OpenFailed(d, note) ==
  [d EXCEPT !.pc = "fallback",
            !.selected = <<note>>,
            !.message = Message(note.content)]

\* a _send_reminder that attempts the typed send without looking for the file
SendFirst_NoFileTest(d, note, ok) ==
  IF NoteTypeOf(note) \in TypedKinds THEN TypedSend(d, note, ok) ELSE TextSend(d, note, ok)

\* _send_reminder from its entry to its first bot call, for the note chosen.
SendFirst(d, note, ok) ==
  IF NoteTypeOf(note) \in TypedKinds /\ FileFound(note)
  THEN IF note.file_path = "ok" THEN TypedSend(d, note, ok) ELSE OpenFailed(d, note)
  ELSE TextSend(d, note, ok)

\* an except branch that tries the text send a second time when it fails
SendFallback_Retry(d, ok) ==
  [d EXCEPT !.pc = IF ok \/ Len(d.calls) >= 2 THEN "done" ELSE "fallback",
            !.calls = Append(@, Call("send_message", d.message, ok)),
            !.outcome = IF ok THEN "sent" ELSE "failed"]

\* an except branch that only logs the failure
SendFallback_LogOnly(d, ok) == [d EXCEPT !.pc = "done", !.outcome = "failed"]

\* the except branch of a typed send: self.bot.send_message(text=message)
SendFallback(d, ok) ==
  [d EXCEPT !.pc = "done",
            !.calls = Append(@, Call("send_message", d.message, ok)),
            !.outcome = IF ok THEN "sent" ELSE "failed"]

\* The records one step of _send_reminder can lead to: random.choice picks the
\* note, the Notification Sender decides whether the call raises.
SendSteps(d) ==
  IF d.pc = "send" /\ d.notes = <<>>
  THEN {[d EXCEPT !.pc = "done", !.outcome = "failed"]}  \* random.choice raises, caught
  ELSE IF d.pc = "send"
  THEN {SendFirst(d, note, ok) : note \in Range(d.notes), ok \in BOOLEAN}
  ELSE IF d.pc = "fallback"
  THEN {SendFallback(d, ok) : ok \in BOOLEAN}
  ELSE {}

\* a thread's delivery fields before _send_reminder is entered
NoDelivery == [notes |-> <<>>, selected |-> <<>>, message |-> <<>>, calls |-> <<>>,
               outcome |-> "none"]

\* ------------------------------------------------------ send_test_reminder
\* tst: pc "idle", then the delivery's pc, then "returned"; ret is the value
\* send_test_reminder returned ("none" while it runs).
TestIdle == [pc |-> "idle", user |-> "u1", ret |-> "none"] @@ NoDelivery

OthersIdleForTest ==
  UNCHANGED <<config, running, loops, disp, user_reminder_times, store, now, cli, rs,
              result, last_call, note_owner,
              dialog, boot>>

\* send_test_reminder up to the call of _send_reminder
TestCall(u) ==
  /\ tst.pc \in {"idle", "returned"}
  /\ \E notes \in get_notes_with_metadata(u) :
       tst' = IF notes = <<>>
              THEN [TestIdle EXCEPT !.pc = "returned", !.user = u, !.ret = "False"]
              ELSE [TestIdle EXCEPT !.pc = "send", !.user = u, !.notes = notes]
  /\ OthersIdleForTest

\* a step of _send_reminder inside send_test_reminder
TestSend ==
  /\ tst' \in SendSteps(tst)
  /\ OthersIdleForTest

\* _send_reminder returned (it raises nothing): `return True`
TestReturn ==
  /\ tst.pc = "done"
  /\ tst' = [tst EXCEPT !.pc = "returned", !.ret = "True"]
  /\ OthersIdleForTest

\* ------------------------------------------------------- _sleep_with_check
\* A sleeping thread's record holds end (end_time) and pc: "sleeping" while it is
\* in the poll loop (inside time.sleep of at most one second), "sl_ret" once the
\* loop was left and `return self._running` is next.
\* cancel is a history field: "no"; "signaled" once stop() cleared the flag while
\* the thread was inside _sleep_with_check before end_time ("late": at or after
\* end_time); "missed" once the thread polled after that and went on sleeping.

\* `while time.time() < end_time and self._running`
KeepSleeping(end_time) == now < end_time /\ running

\* the call of _sleep_with_check up to the first evaluation of the loop condition
SleepEnter(th, minutes) ==
  LET end_time == now + minutes
  IN [th EXCEPT !.end = end_time,
                !.cancel = "no",
                !.pc = IF KeepSleeping(end_time) THEN "sleeping" ELSE "sl_ret"]

\* the thread wakes from time.sleep and evaluates the loop condition again
SleepPoll(th) ==
  IF KeepSleeping(th.end)
  THEN [th EXCEPT !.cancel = IF @ = "signaled" THEN "missed" ELSE @]
  ELSE [th EXCEPT !.pc = "sl_ret"]

\* `return self._running`
SleepResult == IF running THEN "True" ELSE "False"

InSleep(th) == th.pc \in {"sleeping", "sl_ret"}

\* --------------------------------------------------------- the control loop
\* a reminder-day test that counts the days from zero
IsReminderDay_FromZero(day, interval_days) == PyMod(day - 1, interval_days) = 0

\* `today.day % self.config.reminder_interval_days == 0`
IsReminderDay(day, interval_days) == PyMod(day, interval_days) = 0

\* random.randint(reminder_start_hour, reminder_end_hour)
RandomHours == config.reminder_start_hour .. config.reminder_end_hour
\* random.randint(0, 59)
RandomMinutes == 0 .. (MinutesPerHour - 1)
\* the draws of random_minute the scheduler's specification explores
MinuteSamples == {0}

\* a send time that is never moved to the next day
SendTime_NoRoll(t, random_hour, random_minute) == ReplaceHM(t, random_hour, random_minute)

\* send_time of _schedule_user_reminder: today at the drawn time, tomorrow when
\* that has passed
SendTime(t, random_hour, random_minute) ==
  LET send_time == ReplaceHM(t, random_hour, random_minute)
  IN IF t >= send_time THEN send_time + MinutesPerDay ELSE send_time

\* a _schedule_user_reminder without the test of the note list
SkipUser_Never(notes) == FALSE

\* `if not notes: return` of _schedule_user_reminder
SkipUser(notes) == notes = <<>>

\* self._user_reminder_times[user_id] = send_time
TableWrite(table, user_id, send_time) ==
  [u \in (DOMAIN table) \cup {user_id} |-> IF u = user_id THEN send_time ELSE table[u]]

\* a control-loop thread: pc, the sleep fields, and the locals of
\* _handle_reminder_day: users (user_ids), idx (the position of the for loop),
\* notes (of _schedule_user_reminder); raised is a history field: the users of the
\* current run of the procedure for whom _schedule_user_reminder raised
NewLoop == [pc |-> "top", end |-> 0, cancel |-> "no", users |-> <<>>, idx |-> 0,
            notes |-> <<>>, raised |-> {}]

\* a dispatcher thread as threading.Thread(target=_handle_user_reminder,
\* args=(user_id, send_time, notes)) starts it
NewDisp(user_id, send_time, notes) ==
  [pc |-> "start", user |-> user_id, send_time |-> send_time, end |-> 0,
   cancel |-> "no", ret |-> "none"] @@ [NoDelivery EXCEPT !.notes = notes]

SchedulerKeeps == UNCHANGED <<config, store, tst, rs, result, last_call, note_owner,
              dialog, boot>>

\* a control loop that ends when an iteration raises
OnLoopError_Exit(th) == [NewLoop EXCEPT !.pc = "exit"]

\* `except Exception` of _run_scheduler: the error is logged, then
\* self._sleep_with_check(300)
OnLoopError(th) == SleepEnter(th, ErrorSleep)

\* a control loop that runs the reminder-day procedure on every day
LoopTop_NoDayTest(l) ==
  /\ loops[l].pc = "top"
  /\ loops' = [loops EXCEPT ![l] =
       IF ~running THEN [NewLoop EXCEPT !.pc = "exit"]
       ELSE IF config.reminder_interval_days = 0
       THEN OnLoopError(@)
       ELSE [@ EXCEPT !.pc = "rd_users"]]
  /\ UNCHANGED <<running, disp, user_reminder_times, now, cli>>
  /\ SchedulerKeeps

\* `while self._running:` and the reminder-day test of _run_scheduler
LoopTop(l) ==
  /\ loops[l].pc = "top"
  /\ loops' = [loops EXCEPT ![l] =
       IF ~running THEN [NewLoop EXCEPT !.pc = "exit"]
       ELSE IF config.reminder_interval_days = 0
       THEN OnLoopError(@)                 \* ZeroDivisionError
       ELSE IF IsReminderDay(DayOfMonth(now), config.reminder_interval_days)
       THEN [@ EXCEPT !.pc = "rd_users"]
       ELSE SleepEnter(@, HourSleep)]
  /\ UNCHANGED <<running, disp, user_reminder_times, now, cli>>
  /\ SchedulerKeeps

\* _handle_reminder_day: the users query and the no-users branch
RdUsers(l) ==
  /\ loops[l].pc = "rd_users"
  /\ loops' = [loops EXCEPT ![l] =
       IF get_all_user_ids = <<>>
       THEN SleepEnter(@, HourSleep)
       ELSE [@ EXCEPT !.pc = "rd_fetch", !.users = get_all_user_ids, !.idx = 1,
                      !.raised = {}]]
  /\ UNCHANGED <<running, disp, user_reminder_times, now, cli>>
  /\ SchedulerKeeps

\* a notes query that leaves out the filter on Note.user_id
RdFetch_AnyUser(l) ==
  /\ loops[l].pc = "rd_fetch"
  /\ \E u \in Users : \E notes \in get_notes_with_metadata(u) :
       loops' = [loops EXCEPT ![l] = [@ EXCEPT !.pc = "rd_sched", !.notes = notes]]
  /\ UNCHANGED <<running, disp, user_reminder_times, now, cli>>
  /\ SchedulerKeeps

\* _schedule_user_reminder: the notes query
RdFetch(l) ==
  /\ loops[l].pc = "rd_fetch"
  /\ \E notes \in get_notes_with_metadata(loops[l].users[loops[l].idx]) :
       loops' = [loops EXCEPT ![l] = [@ EXCEPT !.pc = "rd_sched", !.notes = notes]]
  /\ UNCHANGED <<running, disp, user_reminder_times, now, cli>>
  /\ SchedulerKeeps

\* a reminder-day procedure followed by the one-hour sleep
NextUser_HourSleep(th) ==
  IF th.idx < Len(th.users)
  THEN [th EXCEPT !.pc = "rd_fetch", !.idx = @ + 1, !.notes = <<>>]
  ELSE SleepEnter([th EXCEPT !.users = <<>>, !.idx = 0, !.notes = <<>>], HourSleep)

\* a for loop that ends after its first user
NextUser_FirstOnly(th) ==
  SleepEnter([th EXCEPT !.users = <<>>, !.idx = 0, !.notes = <<>>],
             Midnight(now) + MinutesPerDay - now)

\* the for loop goes to the next user, or _handle_reminder_day sleeps until the
\* next midnight
NextUser(th) ==
  IF th.idx < Len(th.users)
  THEN [th EXCEPT !.pc = "rd_fetch", !.idx = @ + 1, !.notes = <<>>]
  ELSE SleepEnter([th EXCEPT !.users = <<>>, !.idx = 0, !.notes = <<>>],
                  Midnight(now) + MinutesPerDay - now)

\* _schedule_user_reminder after the query: skip, or draw the time, record it and
\* start the dispatcher
RdSched(l) ==
  /\ loops[l].pc = "rd_sched"
  /\ LET th == loops[l]
         user_id == th.users[th.idx]
     IN IF SkipUser(th.notes)
        THEN /\ loops' = [loops EXCEPT ![l] = NextUser(th)]
             /\ UNCHANGED <<disp, user_reminder_times>>
        ELSE /\ Len(disp) < MaxDisp
             /\ \E random_hour \in RandomHours, random_minute \in MinuteSamples :
                  LET send_time == SendTime(now, random_hour, random_minute)
                  IN /\ user_reminder_times' =
                          TableWrite(user_reminder_times, user_id, send_time)
                     /\ disp' = Append(disp, NewDisp(user_id, send_time, th.notes))
             /\ loops' = [loops EXCEPT ![l] = NextUser(th)]
  /\ UNCHANGED <<running, now, cli>>
  /\ SchedulerKeeps

\* a for loop without the try: the exception reaches _run_scheduler
Caught_Propagates(th) ==
  OnLoopError([th EXCEPT !.users = <<>>, !.idx = 0, !.notes = <<>>,
                         !.raised = @ \cup {th.users[th.idx]}])

\* `except Exception as e` of the for loop of _handle_reminder_day: the error is
\* logged and the loop goes on
Caught(th) == NextUser([th EXCEPT !.raised = @ \cup {th.users[th.idx]}])

\* _schedule_user_reminder: the notes query raises an exception that is not an
\* SQLAlchemyError (those are caught inside get_notes_with_metadata)
RdFetchRaises(l) ==
  /\ loops[l].pc = "rd_fetch"
  /\ loops' = [loops EXCEPT ![l] = Caught(@)]
  /\ UNCHANGED <<running, disp, user_reminder_times, now, cli>>
  /\ SchedulerKeeps

\* _schedule_user_reminder: reminder_thread.start() raises (RuntimeError: can't
\* start new thread), after the send time was recorded
RdStartRaises(l) ==
  /\ loops[l].pc = "rd_sched"
  /\ ~SkipUser(loops[l].notes)
  /\ \E random_hour \in RandomHours, random_minute \in MinuteSamples :
       user_reminder_times' =
         TableWrite(user_reminder_times, loops[l].users[loops[l].idx],
                    SendTime(now, random_hour, random_minute))
  /\ loops' = [loops EXCEPT ![l] = Caught(@)]
  /\ UNCHANGED <<running, disp, now, cli>>
  /\ SchedulerKeeps

\* the control loop inside _sleep_with_check
LoopPoll(l) ==
  /\ loops[l].pc = "sleeping"
  /\ loops' = [loops EXCEPT ![l] = SleepPoll(@)]
  /\ UNCHANGED <<running, disp, user_reminder_times, now, cli>>
  /\ SchedulerKeeps

\* _sleep_with_check returns to the control loop, which ignores the value and
\* goes back to `while self._running`
LoopSleepReturn(l) ==
  /\ loops[l].pc = "sl_ret"
  /\ loops' = [loops EXCEPT ![l] = [@ EXCEPT !.pc = "top", !.end = 0, !.cancel = "no"]]
  /\ UNCHANGED <<running, disp, user_reminder_times, now, cli>>
  /\ SchedulerKeeps

\* ------------------------------------------------------------ dispatchers
\* a dispatcher that records its own send time in the table when it starts
DispStart_WritesTable(i) ==
  /\ disp[i].pc = "start"
  /\ LET wait == disp[i].send_time - now
     IN disp' = [disp EXCEPT ![i] =
          IF wait > 0 THEN SleepEnter(@, wait) ELSE [@ EXCEPT !.pc = "send"]]
  /\ user_reminder_times' = TableWrite(user_reminder_times, disp[i].user, now)
  /\ UNCHANGED <<running, loops, now, cli>>
  /\ SchedulerKeeps

\* _handle_user_reminder: wait_seconds, and the call of _sleep_with_check
DispStart(i) ==
  /\ disp[i].pc = "start"
  /\ LET wait == disp[i].send_time - now
     IN disp' = [disp EXCEPT ![i] =
          IF wait > 0 THEN SleepEnter(@, wait) ELSE [@ EXCEPT !.pc = "send"]]
  /\ UNCHANGED <<running, loops, user_reminder_times, now, cli>>
  /\ SchedulerKeeps

\* the dispatcher inside _sleep_with_check
DispPoll(i) ==
  /\ disp[i].pc = "sleeping"
  /\ disp' = [disp EXCEPT ![i] = SleepPoll(@)]
  /\ UNCHANGED <<running, loops, user_reminder_times, now, cli>>
  /\ SchedulerKeeps

\* What is kept of a dispatcher thread that ended: its user, the value its sleep
\* returned, the note it chose, the calls it made and the outcome it logged.
Ended(th) ==
  [NewDisp(th.user, 0, <<>>) EXCEPT !.pc = "done", !.ret = th.ret, !.calls = th.calls,
                                   !.selected = th.selected, !.outcome = th.outcome]

\* a dispatcher that returns after its sleep whatever the sleep returned
AfterSleep_Abandon(th, ret) == Ended([th EXCEPT !.ret = ret])

\* `if not self._sleep_with_check(wait_seconds): return`
AfterSleep(th, ret) ==
  IF ret = "True"
  THEN [th EXCEPT !.ret = ret, !.pc = "send"]
  ELSE Ended([th EXCEPT !.ret = ret])

DispSleepReturn(i) ==
  /\ disp[i].pc = "sl_ret"
  /\ disp' = [disp EXCEPT ![i] = AfterSleep(@, SleepResult)]
  /\ UNCHANGED <<running, loops, user_reminder_times, now, cli>>
  /\ SchedulerKeeps

\* a dispatcher that reads the user's notes again when its sleep is over
DispSend_Refetch(i) ==
  /\ \E d \in SendSteps(IF disp[i].pc = "send"
                         THEN [disp[i] EXCEPT !.notes = store[disp[i].user]]
                         ELSE disp[i]) :
       disp' = [disp EXCEPT ![i] = IF d.pc = "done" THEN Ended(d) ELSE d]
  /\ UNCHANGED <<running, loops, user_reminder_times, now, cli>>
  /\ SchedulerKeeps

\* a step of _send_reminder inside the dispatcher
DispSend(i) ==
  /\ \E d \in SendSteps(disp[i]) :
       disp' = [disp EXCEPT ![i] = IF d.pc = "done" THEN Ended(d) ELSE d]
  /\ UNCHANGED <<running, loops, user_reminder_times, now, cli>>
  /\ SchedulerKeeps

\* ------------------------------------------------------------ start, stop
\* cli is where the caller of start() and stop() stands. NotesBot.start calls
\* start() once and stop() once: "created", "polling", "bot_joining", "stopped".
\* A caller that uses the scheduler as the class allows calls them in any order,
\* one call at a time: "idle", "joining".

\* a start() without the test of the flag
StartBody_NoGuard ==
  /\ Len(loops) < MaxLoops
  /\ running' = TRUE
  /\ loops' = Append(loops, NewLoop)

\* MultiUserScheduler.start
StartBody ==
  IF running
  THEN UNCHANGED <<running, loops>>          \* "Scheduler is already running"
  ELSE /\ Len(loops) < MaxLoops
       /\ running' = TRUE
       /\ loops' = Append(loops, NewLoop)

\* the history field of the threads that are inside _sleep_with_check
Signal(th) ==
  IF InSleep(th) /\ th.cancel = "no"
  THEN [th EXCEPT !.cancel = IF now < th.end THEN "signaled" ELSE "late"]
  ELSE th

\* self._thread.is_alive()
ThreadAlive == loops # <<>> /\ loops[Len(loops)].pc # "exit"

\* self._thread.join(timeout=5) returns: the thread has ended, or the five seconds
\* have passed. A thread inside _sleep_with_check reads the flag again within a
\* second, so the time-out happens only while the thread is at work outside it.
JoinReturns == ~ThreadAlive \/ ~InSleep(loops[Len(loops)])

\* a stop() that leaves the flag as it is
StopBody_KeepsFlag ==
  /\ running' = running
  /\ loops' = [l \in DOMAIN loops |-> Signal(loops[l])]
  /\ disp' = [i \in DOMAIN disp |-> Signal(disp[i])]

\* MultiUserScheduler.stop up to the join
StopBody ==
  /\ running' = FALSE
  /\ loops' = [l \in DOMAIN loops |-> Signal(loops[l])]
  /\ disp' = [i \in DOMAIN disp |-> Signal(disp[i])]

\* what a call of start() or stop() leaves alone besides the scheduler's own state
CallerKeeps == UNCHANGED <<config, store, tst, rs, result, note_owner,
              dialog, boot>>

\* start() called by any caller
Start ==
  /\ cli = "idle"
  /\ StartBody
  /\ last_call' = [op |-> "start", was_running |-> running]
  /\ UNCHANGED <<disp, user_reminder_times, now, cli>>
  /\ CallerKeeps

\* stop() called by any caller
Stop ==
  /\ cli = "idle"
  /\ StopBody
  /\ cli' = IF ThreadAlive THEN "joining" ELSE "idle"
  /\ last_call' = [op |-> "stop", was_running |-> running]
  /\ UNCHANGED <<user_reminder_times, now>>
  /\ CallerKeeps

\* stop() returns from the join
StopReturn ==
  /\ cli = "joining"
  /\ JoinReturns
  /\ cli' = "idle"
  /\ UNCHANGED <<running, loops, disp, user_reminder_times, now>>
  /\ SchedulerKeeps

\* NotesBot.start: self.scheduler.start()
BotStart ==
  /\ cli = "created"
  /\ StartBody
  /\ cli' = "polling"
  /\ last_call' = [op |-> "start", was_running |-> running]
  /\ UNCHANGED <<disp, user_reminder_times, now>>
  /\ CallerKeeps

\* NotesBot.start, the finally block: self.scheduler.stop()
BotStop ==
  /\ cli = "polling"
  /\ StopBody
  /\ cli' = IF ThreadAlive THEN "bot_joining" ELSE "stopped"
  /\ last_call' = [op |-> "stop", was_running |-> running]
  /\ UNCHANGED <<user_reminder_times, now>>
  /\ CallerKeeps

BotStopReturn ==
  /\ cli = "bot_joining"
  /\ JoinReturns
  /\ cli' = "stopped"
  /\ UNCHANGED <<running, loops, disp, user_reminder_times, now>>
  /\ SchedulerKeeps

\* ------------------------------------------------------------------ clock
\* the instants some thread waits for
WakeTimes ==
  {loops[l].end : l \in {k \in DOMAIN loops : loops[k].pc = "sleeping"}}
  \cup {disp[i].end : i \in {k \in DOMAIN disp : disp[k].pc = "sleeping"}}
  \cup {disp[i].send_time : i \in {k \in DOMAIN disp : disp[k].pc = "start"}}

\* time passes, up to an instant a thread waits for
Tick ==
  /\ \E t \in WakeTimes : t > now /\ DayOfMonth(t) <= MaxDay /\ now' = t
  /\ UNCHANGED <<running, loops, disp, user_reminder_times, cli>>
  /\ SchedulerKeeps

\* ------------------------------------------- the single-user ReminderScheduler
\* `today.day % self.config.reminder_interval_days == 0` of ReminderScheduler
RS_IsReminderDay(day, interval_days) == PyMod(day, interval_days) = 0

\* send_time of ReminderScheduler._handle_reminder_day
RS_SendTime(t, random_hour, random_minute) ==
  LET send_time == ReplaceHM(t, random_hour, random_minute)
  IN IF t >= send_time THEN send_time + MinutesPerDay ELSE send_time

RsKeeps ==
  UNCHANGED <<config, running, loops, disp, user_reminder_times, store, now, cli, tst,
              result, last_call, note_owner,
              dialog, boot>>

\* a control-loop thread of ReminderScheduler: pc, the sleep it is in ("hour",
\* "error", "wait" for the send time, "midnight") and its end_time, the locals of
\* _handle_reminder_day, what the wait returned, and the Notification Sender
\* calls of the current iteration
RsNewThread == [pc |-> "top", sleep |-> "none", end |-> 0, chat_id |-> "",
                notes |-> <<>>, send_time |-> 0, ret |-> "none", calls |-> <<>>]

\* ReminderScheduler.start
RS_Start ==
  /\ ~rs.running
  /\ Len(rs.threads) < MaxLoops
  /\ rs' = [rs EXCEPT !.running = TRUE, !.threads = Append(@, RsNewThread)]
  /\ RsKeeps

\* ReminderScheduler.stop: the flag is cleared; the join of at most five seconds
\* changes nothing
RS_Stop ==
  /\ rs.running
  /\ rs' = [rs EXCEPT !.running = FALSE]
  /\ RsKeeps

\* ReminderScheduler._sleep_with_check up to the first evaluation of
\* `while time.time() < end_time and self._running`
RS_SleepEnter(th, kind, minutes) ==
  [th EXCEPT !.sleep = kind, !.end = now + minutes,
             !.pc = IF now < now + minutes /\ rs.running THEN "sleeping" ELSE "sl_ret"]

\* `while self._running:` and the reminder-day test of ReminderScheduler._run_scheduler;
\* "rd": _handle_reminder_day is entered
RS_LoopTop(k) ==
  /\ rs.threads[k].pc = "top"
  /\ rs' = [rs EXCEPT !.threads[k] =
       IF ~rs.running THEN [RsNewThread EXCEPT !.pc = "exit"]
       ELSE IF config.reminder_interval_days = 0
       THEN RS_SleepEnter(@, "error", ErrorSleep)
       ELSE IF RS_IsReminderDay(DayOfMonth(now), config.reminder_interval_days)
       THEN [RsNewThread EXCEPT !.pc = "rd"]
       ELSE RS_SleepEnter(@, "hour", HourSleep)]
  /\ RsKeeps

\* FileStorage.get_chat_id and get_notes: what the files hold, or None and [] when
\* reading them raised ("" stands for None)
RS_get_chat_id == {rs.chat_id, ""}
RS_get_notes == {rs.notes, <<>>}

\* ReminderScheduler._handle_reminder_day up to the wait for the send time
RS_HandleReminderDay(k) ==
  /\ rs.threads[k].pc = "rd"
  /\ \E chat_id \in RS_get_chat_id, notes \in RS_get_notes :
       \E random_hour \in RandomHours, random_minute \in MinuteSamples :
         rs' = [rs EXCEPT !.threads[k] =
           IF chat_id = "" \/ notes = <<>>
           THEN RS_SleepEnter(@, "hour", HourSleep)
           ELSE LET send_time == RS_SendTime(now, random_hour, random_minute)
                IN RS_SleepEnter([@ EXCEPT !.chat_id = chat_id, !.notes = notes,
                                           !.send_time = send_time],
                                 "wait", send_time - now)]
  /\ RsKeeps

\* the thread wakes inside _sleep_with_check and evaluates the loop condition
RS_Poll(k) ==
  /\ rs.threads[k].pc = "sleeping"
  /\ ~(now < rs.threads[k].end /\ rs.running)
  /\ rs' = [rs EXCEPT !.threads[k].pc = "sl_ret"]
  /\ RsKeeps

\* `return self._running`, and what the caller does with it: after the wait for
\* the send time `if self._sleep_with_check(wait_seconds):` goes on to
\* _send_reminder, or _handle_reminder_day returns; the other sleeps end the
\* iteration
RS_SleepReturn(k) ==
  /\ rs.threads[k].pc = "sl_ret"
  /\ rs' = [rs EXCEPT !.threads[k] =
       IF @.sleep = "wait"
       THEN [@ EXCEPT !.ret = IF rs.running THEN "True" ELSE "False",
                      !.pc = IF rs.running THEN "send" ELSE "top"]
       ELSE [@ EXCEPT !.pc = "top"]]
  /\ RsKeeps

\* ReminderScheduler._send_reminder (an exception of the sender is logged), then
\* the sleep until the next midnight
RS_Send(k) ==
  /\ rs.threads[k].pc = "send"
  /\ \E selected_note \in Range(rs.threads[k].notes), ok \in BOOLEAN :
       rs' = [rs EXCEPT !.threads[k] =
         RS_SleepEnter([@ EXCEPT !.calls = Append(@, [chat_id |-> rs.threads[k].chat_id,
                                                      text |-> Message(selected_note),
                                                      ok |-> ok])],
                       "midnight", Midnight(now) + MinutesPerDay - now)]
  /\ RsKeeps

\* time passes, up to an instant a thread of ReminderScheduler waits for
RS_Tick ==
  /\ \E k \in DOMAIN rs.threads :
       /\ rs.threads[k].pc = "sleeping"
       /\ rs.threads[k].end > now
       /\ DayOfMonth(rs.threads[k].end) <= MaxDay
       /\ now' = rs.threads[k].end
  /\ UNCHANGED <<config, running, loops, disp, user_reminder_times, store, cli, tst, rs,
                 result, last_call, note_owner, dialog, boot>>

\* ---------------------------------------------- the send time, on its own
\* The draw and the computation of send_time in _schedule_user_reminder, applied
\* to the clock and the window of the state.
DrawSendTime ==
  /\ result = NoResult
  /\ \E random_hour \in RandomHours, random_minute \in RandomMinutes :
       result' = <<[by |-> "MultiUserScheduler", hour |-> random_hour,
                    minute |-> random_minute,
                    send_time |-> SendTime(now, random_hour, random_minute)]>>
  /\ UNCHANGED <<config, running, loops, disp, user_reminder_times, store, now, cli, tst,
                 rs, last_call, note_owner,
              dialog, boot>>

\* the same lines of ReminderScheduler._handle_reminder_day
RS_DrawSendTime ==
  /\ result = NoResult
  /\ \E random_hour \in RandomHours, random_minute \in RandomMinutes :
       result' = <<[by |-> "ReminderScheduler", hour |-> random_hour,
                    minute |-> random_minute,
                    send_time |-> RS_SendTime(now, random_hour, random_minute)]>>
  /\ UNCHANGED <<config, running, loops, disp, user_reminder_times, store, now, cli, tst,
                 rs, last_call, note_owner,
              dialog, boot>>

\* ----------------------------------------------------------- introspection
RECURSIVE SumLen(_)
\* DatabaseStorage.get_total_notes: the number of rows of the notes table
SumLen(us) ==
  IF us = {} THEN 0
  ELSE LET u == CHOOSE x \in us : TRUE IN Len(store[u]) + SumLen(us \ {u})

\* a snapshot that reports the scheduler as running whatever the flag is
get_scheduler_stats_AlwaysRunning ==
  [total_users |-> Cardinality(Users),
   total_notes |-> SumLen(Users),
   active_users |-> Len(get_all_user_ids),
   scheduled_reminders |-> Cardinality(DOMAIN user_reminder_times),
   running |-> TRUE]

\* the dict get_scheduler_stats returns
get_scheduler_stats ==
  [total_users |-> Cardinality(Users),
   total_notes |-> SumLen(Users),
   active_users |-> Len(get_all_user_ids),
   scheduled_reminders |-> Cardinality(DOMAIN user_reminder_times),
   running |-> running]

\* self._user_reminder_times.get(user_id): <<>> is None
get_next_reminder_time(user_id) ==
  IF user_id \in DOMAIN user_reminder_times THEN <<user_reminder_times[user_id]>> ELSE <<>>

IntrospectionKeeps ==
  UNCHANGED <<config, running, loops, disp, user_reminder_times, store, now, cli, tst,
              rs, last_call, note_owner,
              dialog, boot>>

\* a call of get_scheduler_stats; result holds what it returned
GetSchedulerStats ==
  /\ result = NoResult
  /\ result' = <<[by |-> "get_scheduler_stats", value |-> get_scheduler_stats]>>
  /\ IntrospectionKeeps

\* a call of get_next_reminder_time(user_id)
GetNextReminderTime(user_id) ==
  /\ result = NoResult
  /\ result' = <<[by |-> "get_next_reminder_time", user |-> user_id,
                  value |-> get_next_reminder_time(user_id)]>>
  /\ IntrospectionKeeps

\* --------------------------------------------------------- specifications

\* the configurations and instants Spec starts from
SchedConfig(n) ==
  [reminder_interval_days |-> n, reminder_start_hour |-> 9, reminder_end_hour |-> 10]
\* interval 1: the first of the month is a reminder day, before the window and
\* inside it; interval 2: it is not one
SchedStarts ==
  {<<SchedConfig(1), At(1, 8, 30)>>, <<SchedConfig(1), At(1, 9, 30)>>,
   <<SchedConfig(2), At(1, 21, 30)>>}

Note(id, note_type, file_path) ==
  [id |-> id, content |-> IF id % 2 = 1 THEN "a" ELSE "b", note_type |-> note_type,
   file_path |-> file_path]

\* the contents of the notes table Spec starts from
SchedStores ==
  {[u \in Users |-> IF u = "u1" THEN n1 ELSE n2] :
     n1 \in {<<Note(1, "text", "nokey")>>},
     n2 \in {<<>>, <<Note(2, "image", "ok")>>}}
  \cup {[u \in Users |-> <<>>]}

\* Note.user_id of the rows of a notes table, by Note.id
OwnersOf(st) ==
  [id \in {n.id : n \in UNION {Range(st[u]) : u \in Users}} |->
     CHOOSE u \in Users : \E n \in Range(st[u]) : n.id = id]

SchedulerInit ==
  /\ running = FALSE
  /\ loops = <<>>
  /\ disp = <<>>
  /\ user_reminder_times = <<>>
  /\ tst = TestIdle
  /\ rs = RsIdle
  /\ result = NoResult
  /\ last_call = NoCall
  /\ dialog = NoDialog
  /\ boot = BootInit

\* the steps of the scheduler's threads
Threads ==
  \/ \E l \in DOMAIN loops :
       \/ LoopTop(l)
       \/ RdUsers(l)
       \/ RdFetch(l)
       \/ RdSched(l)
       \/ LoopPoll(l)
       \/ LoopSleepReturn(l)
  \/ \E i \in DOMAIN disp :
       \/ DispStart(i)
       \/ DispPoll(i)
       \/ DispSleepReturn(i)
       \/ DispSend(i)

\* Spec: the scheduler as NotesBot runs it.
Init ==
  /\ SchedulerInit
  /\ \E st \in SchedStarts : config = st[1] /\ now = st[2]
  /\ store \in SchedStores
  /\ note_owner = OwnersOf(store)
  /\ cli = "created"

Next ==
  \/ BotStart
  \/ BotStop
  \/ BotStopReturn
  \/ Tick
  \/ Threads

Spec == Init /\ [][Next]_vars

\* SpecApi: the scheduler under a caller that starts and stops it in any order.
ApiStores == {[u \in Users |-> IF u = "u1" THEN <<Note(1, "text", "nokey")>> ELSE <<>>]}

InitApi ==
  /\ SchedulerInit
  /\ \E st \in SchedStarts : config = st[1] /\ now = st[2]
  /\ store \in ApiStores
  /\ note_owner = OwnersOf(store)
  /\ cli = "idle"

NextApi ==
  \/ Start
  \/ Stop
  \/ StopReturn
  \/ Tick
  \/ Threads

SpecApi == InitApi /\ [][NextApi]_vars

\* SpecDay: the reminder-day test of both control loops, on every day of a month
\* and for every interval up to MaxInterval.
DayHours == {0, 12}

InitDay ==
  /\ SchedulerInit
  /\ config \in {SchedConfig(n) : n \in 1..MaxInterval}
  /\ now \in {At(d, h, 0) : d \in DaysOfMonth, h \in DayHours}
  /\ store \in ApiStores
  /\ note_owner = OwnersOf(store)
  /\ cli = "created"

NextDay ==
  \/ BotStart
  \/ \E l \in DOMAIN loops : LoopTop(l)
  \/ RS_Start
  \/ \E k \in DOMAIN rs.threads : RS_LoopTop(k)

SpecDay == InitDay /\ [][NextDay]_vars

\* SpecFire: the send time, for every draw, at instants all over a day.
Window(start_hour, end_hour) ==
  [reminder_interval_days |-> 2, reminder_start_hour |-> start_hour,
   reminder_end_hour |-> end_hour]
\* the default window of Config, and the narrowest one
FireConfigs == {Window(8, 20), Window(9, 10)}
FireMinutes == {0, 30, 59}
FireInstants == {At(1, h, m) : h \in 0..23, m \in FireMinutes}

InitFire ==
  /\ SchedulerInit
  /\ config \in FireConfigs
  /\ now \in FireInstants
  /\ store \in ApiStores
  /\ note_owner = OwnersOf(store)
  /\ cli = "created"

NextFire ==
  \/ DrawSendTime
  \/ RS_DrawSendTime

SpecFire == InitFire /\ [][NextFire]_vars

\* SpecSend: _send_reminder on every list of up to MaxNotes notes of every kind,
\* entered through send_test_reminder. "sticker" is a note_type the code does not
\* know; "absent" is a note whose dict has no note_type.
KindFiles ==
  (TypedKinds \X FilePaths) \cup ({"text", "sticker", "absent"} \X {"nokey"})
NoteLists ==
  {<<>>} \cup
  UNION {{[i \in 1..n |-> Note(i, kf[i][1], kf[i][2])] : kf \in [1..n -> KindFiles]} :
           n \in 1..MaxNotes}

InitSend ==
  /\ SchedulerInit
  /\ config = SchedConfig(1)
  /\ now = At(1, 8, 30)
  /\ \E notes \in NoteLists : store = [u \in Users |-> IF u = "u1" THEN notes ELSE <<>>]
  /\ note_owner = OwnersOf(store)
  /\ cli = "created"

NextSend ==
  \/ \E u \in Users : TestCall(u)
  \/ TestSend
  \/ TestReturn

SpecSend == InitSend /\ [][NextSend]_vars

\* SpecStats: the scheduler as NotesBot runs it, with one call of an introspection
\* operation at any moment.
InitStats ==
  /\ SchedulerInit
  /\ config = SchedConfig(1)
  /\ now \in {At(1, 8, 30), At(1, 9, 30)}
  /\ store \in ApiStores
  /\ note_owner = OwnersOf(store)
  /\ cli = "created"

NextStats ==
  \/ Next
  \/ GetSchedulerStats
  \/ \E u \in Users : GetNextReminderTime(u)

SpecStats == InitStats /\ [][NextStats]_vars

\* SpecLife: start() and stop() called in any order, within one minute, on a
\* scheduler whose notes table is empty, so that only the control loop runs.
InitLife ==
  /\ SchedulerInit
  /\ config \in {SchedConfig(1), SchedConfig(2)}
  /\ now = At(1, 22, 30)
  /\ store = [u \in Users |-> <<>>]
  /\ note_owner = OwnersOf(store)
  /\ cli = "idle"

NextLife ==
  \/ Start
  \/ Stop
  \/ StopReturn
  \/ \E l \in DOMAIN loops :
       \/ LoopTop(l)
       \/ RdUsers(l)
       \/ LoopPoll(l)
       \/ LoopSleepReturn(l)

SpecLife == InitLife /\ [][NextLife]_vars

\* SpecErr: the control loops under a configuration whose interval is 0, so that
\* every iteration raises ZeroDivisionError.
InitErr ==
  /\ SchedulerInit
  /\ config = SchedConfig(0)
  /\ now \in {At(1, 8, 30), At(1, 23, 30)}
  /\ store \in ApiStores
  /\ note_owner = OwnersOf(store)
  /\ cli = "created"

NextErr ==
  \/ BotStart
  \/ BotStop
  \/ BotStopReturn
  \/ Tick
  \/ \E l \in DOMAIN loops :
       \/ LoopTop(l)
       \/ LoopPoll(l)
       \/ LoopSleepReturn(l)
  \/ RS_Start
  \/ \E k \in DOMAIN rs.threads : RS_LoopTop(k)

SpecErr == InitErr /\ [][NextErr]_vars

\* SpecSnap: the scheduler started by NotesBot and left running, while the bot's
\* handlers save, delete and clear notes.
\* Note.id is an autoincrement primary key: a new row gets an id above every id
\* the table has handed out.
NextNoteId ==
  IF DOMAIN note_owner = {} THEN 1
  ELSE 1 + CHOOSE m \in DOMAIN note_owner : \A k \in DOMAIN note_owner : k <= m

StoreWriterKeeps ==
  UNCHANGED <<config, running, loops, disp, user_reminder_times, now, cli, tst, rs,
              result, last_call, dialog, boot>>

\* a save_note that puts the new row in the place of the user's rows
SaveNoteOfKind_Replace(user_id, note_type, file_path) ==
  /\ Len(store[user_id]) < MaxNotes
  /\ NextNoteId <= MaxNotes + 1
  /\ store' = [store EXCEPT ![user_id] = <<Note(NextNoteId, note_type, file_path)>>]
  /\ note_owner' = (NextNoteId :> user_id) @@ note_owner
  /\ StoreWriterKeeps

\* save_note(user_id, content, note_type, note_metadata) when the commit succeeds;
\* the queries order by created_at descending, so the new row is first. A commit
\* that fails is rolled back and leaves the table as it was.
SaveNoteOfKind(user_id, note_type, file_path) ==
  /\ Len(store[user_id]) < MaxNotes
  /\ NextNoteId <= MaxNotes + 1
  /\ store' = [store EXCEPT ![user_id] = <<Note(NextNoteId, note_type, file_path)>> \o @]
  /\ note_owner' = (NextNoteId :> user_id) @@ note_owner
  /\ StoreWriterKeeps

\* save_note of a text message
SaveNote(user_id) == SaveNoteOfKind(user_id, "text", "nokey")

\* delete_note_by_index(user_id, index), index counted from 0
DeleteNoteByIndex(user_id, index) ==
  /\ store[user_id] # <<>> /\ index >= 0 /\ index < Len(store[user_id])
  /\ store' = [store EXCEPT ![user_id] =
                 SubSeq(@, 1, index) \o SubSeq(@, index + 2, Len(@))]
  /\ UNCHANGED note_owner
  /\ StoreWriterKeeps

\* a clear_notes without the filter on Note.user_id
ClearNotes_AllUsers(user_id) ==
  /\ store[user_id] # <<>>
  /\ store' = [u \in Users |-> <<>>]
  /\ UNCHANGED note_owner
  /\ StoreWriterKeeps

\* clear_notes(user_id)
ClearNotes(user_id) ==
  /\ store[user_id] # <<>>
  /\ store' = [store EXCEPT ![user_id] = <<>>]
  /\ UNCHANGED note_owner
  /\ StoreWriterKeeps

InitSnap ==
  /\ SchedulerInit
  /\ config = SchedConfig(1)
  /\ now = At(1, 8, 30)
  /\ store \in ApiStores
  /\ note_owner = OwnersOf(store)
  /\ cli = "created"

NextSnap ==
  \/ BotStart
  \/ Threads
  \/ Tick
  \/ \E u \in {"u1"} :           \* the user the table starts with keeps writing
       \/ SaveNote(u)
       \/ ClearNotes(u)
       \/ \E index \in 0..(MaxNotes - 1) : DeleteNoteByIndex(u, index)

SpecSnap == InitSnap /\ [][NextSnap]_vars

\* SpecMain: main() from the loading of the configuration on. cli is "main" at
\* the top of the retry loop, "validated" after Config.validate returned True,
\* "created" once NotesBot(config) is built, "exited" when the process ended.
\* a validate that does not compare the two hours
Validate_NoOrder(cfg) ==
  /\ ~(cfg.bot_token = "" \/ cfg.bot_token = "PASTE_YOUR_TOKEN_HERE")
  /\ cfg.database_url # ""
  /\ ~(cfg.reminder_start_hour < 0 \/ cfg.reminder_start_hour > 23)
  /\ ~(cfg.reminder_end_hour < 0 \/ cfg.reminder_end_hour > 23)

\* Config.validate
Validate(cfg) ==
  /\ ~(cfg.bot_token = "" \/ cfg.bot_token = "PASTE_YOUR_TOKEN_HERE")
  /\ cfg.database_url # ""
  /\ ~(cfg.reminder_start_hour < 0 \/ cfg.reminder_start_hour > 23)
  /\ ~(cfg.reminder_end_hour < 0 \/ cfg.reminder_end_hour > 23)
  /\ ~(cfg.reminder_start_hour >= cfg.reminder_end_hour)

MainKeeps ==
  UNCHANGED <<config, running, loops, disp, user_reminder_times, store, now, tst, rs,
              result, last_call, note_owner,
              dialog, boot>>

\* `if not config.validate(): sys.exit(1)`: SystemExit is not an Exception, the
\* except clauses of main() let it through.
MainValidate ==
  /\ cli = "main"
  /\ cli' = IF Validate(config) THEN "validated" ELSE "exited"
  /\ MainKeeps

\* `bot = NotesBot(config)`: it returns, or it raises (the database cannot be
\* reached) and main() goes round its retry loop, or gives up at the last attempt.
MainCreateBot ==
  /\ cli = "validated"
  /\ cli' \in {"created", "main", "exited"}
  /\ MainKeeps

\* what the environment variables can hold
MainTokens == {"", "PASTE_YOUR_TOKEN_HERE", "token"}
MainUrls == {"", "postgresql://db"}
MainHours == {-1, 9, 10, 23, 24}
MainIntervals == {-1, 0, 1, 2}

\* Config.__init__
MainConfigs ==
  [bot_token : MainTokens, database_url : MainUrls, reminder_start_hour : MainHours,
   reminder_end_hour : MainHours, reminder_interval_days : MainIntervals]

InitMain ==
  /\ SchedulerInit
  /\ config \in MainConfigs
  /\ now = At(1, 8, 30)
  /\ store \in ApiStores
  /\ note_owner = OwnersOf(store)
  /\ cli = "main"

NextMain ==
  \/ MainValidate
  \/ MainCreateBot
  \/ Next

SpecMain == InitMain /\ [][NextMain]_vars

\* SpecOwn: two users with notes, on the last day explored; the scheduler NotesBot
\* started is running, u1 saves, deletes and clears, each user may ask for a test
\* reminder.
OwnStores ==
  {[u \in Users |-> IF u = "u1" THEN <<Note(1, "text", "nokey")>>
                                 ELSE <<Note(2, "image", "ok")>>]}

InitOwn ==
  /\ SchedulerInit
  /\ config = SchedConfig(1)
  /\ now = At(MaxDay, 8, 30)
  /\ store \in OwnStores
  /\ note_owner = OwnersOf(store)
  /\ cli = "created"

NextOwn ==
  \/ BotStart
  \/ Threads
  \/ Tick
  \/ \E u \in {"u1"} :
       \/ SaveNote(u)
       \/ ClearNotes(u)
       \/ \E index \in 0..(MaxNotes - 1) : DeleteNoteByIndex(u, index)
  \/ \E u \in Users : (tst.pc = "idle" /\ TestCall(u))
  \/ TestSend
  \/ TestReturn

SpecOwn == InitOwn /\ [][NextOwn]_vars

\* SpecRoll: the scheduler NotesBot started inside the window with a reminder every
\* day, followed over midnight into the day after the last one.
TickOver ==
  /\ \E t \in WakeTimes : t > now /\ DayOfMonth(t) <= MaxDay + 1 /\ now' = t
  /\ UNCHANGED <<running, loops, disp, user_reminder_times, cli>>
  /\ SchedulerKeeps

InitRoll ==
  /\ SchedulerInit
  /\ config = SchedConfig(1)
  /\ now = At(MaxDay, 9, 30)
  /\ store \in ApiStores
  /\ note_owner = OwnersOf(store)
  /\ cli = "created"

NextRoll ==
  \/ BotStart
  \/ TickOver
  \/ Threads

SpecRoll == InitRoll /\ [][NextRoll]_vars

\* SpecStore: the notes table under the bot's handlers alone: both users save
\* notes of several kinds, delete by index and clear. u2 starts without a row.
StoreKinds == {<<"text", "nokey">>, <<"image", "ok">>, <<"voice", "gone">>}

InitStore ==
  /\ SchedulerInit
  /\ config = SchedConfig(1)
  /\ now = At(1, 8, 30)
  /\ store \in ApiStores
  /\ note_owner = OwnersOf(store)
  /\ cli = "created"

NextStore ==
  \E u \in Users :
    \/ \E kf \in StoreKinds : SaveNoteOfKind(u, kf[1], kf[2])
    \/ \E index \in 0..(MaxNotes - 1) : DeleteNoteByIndex(u, index)
    \/ ClearNotes(u)

SpecStore == InitStore /\ [][NextStore]_vars

\* SpecClear: the notes table when the users save and clear only.
NextClear ==
  \E u \in Users :
    \/ \E kf \in StoreKinds : SaveNoteOfKind(u, kf[1], kf[2])
    \/ ClearNotes(u)

SpecClear == InitStore /\ [][NextClear]_vars

\* SpecDelete: the notes table when the users save notes and the bot calls
\* delete_note_by_index with any index.
\* the indexes delete_note_by_index is called with, and the database's answer
DeleteIndexes == -1 .. MaxNotes

StorageCallKeeps ==
  UNCHANGED <<config, running, loops, disp, user_reminder_times, now, cli, tst, rs,
              last_call, note_owner,
              dialog, boot>>

\* a delete_note_by_index that counts the index from the oldest note
DeleteNoteByIndexCall_FromOldest(user_id, index, db_ok) ==
  /\ LET notes == store[user_id]
         deleted == db_ok /\ ~(notes = <<>> \/ index < 0 \/ index >= Len(notes))
         at == Len(notes) - index
     IN /\ store' = IF deleted
                    THEN [store EXCEPT ![user_id] =
                            SubSeq(notes, 1, at - 1) \o SubSeq(notes, at + 1, Len(notes))]
                    ELSE store
        /\ result' = <<[by |-> "delete_note_by_index", user |-> user_id,
                        index |-> index, value |-> deleted]>>
  /\ StorageCallKeeps

\* delete_note_by_index(user_id, index) with its return value: the rows of the
\* user newest first, the test of the index, the delete and the commit. db_ok is
\* FALSE when the query or the commit raises SQLAlchemyError: the session is
\* rolled back and the method returns False.
DeleteNoteByIndexCall(user_id, index, db_ok) ==
  /\ LET notes == store[user_id]
         deleted == db_ok /\ ~(notes = <<>> \/ index < 0 \/ index >= Len(notes))
     IN /\ store' = IF deleted
                    THEN [store EXCEPT ![user_id] =
                            SubSeq(notes, 1, index) \o SubSeq(notes, index + 2, Len(notes))]
                    ELSE store
        /\ result' = <<[by |-> "delete_note_by_index", user |-> user_id,
                        index |-> index, value |-> deleted]>>
  /\ StorageCallKeeps

NextDelete ==
  \E u \in Users :
    \/ \E kf \in StoreKinds : SaveNoteOfKind(u, kf[1], kf[2])
    \/ \E index \in DeleteIndexes, db_ok \in BOOLEAN : DeleteNoteByIndexCall(u, index, db_ok)

SpecDelete == InitStore /\ [][NextDelete]_vars

\* SpecButton: the /clear dialog of NotesBot while the users save, delete and
\* clear notes. The Updater runs one handler at a time, so a handler is one step.
\* DatabaseStorage.get_notes: the contents of the user's notes, newest first, or
\* [] when the query raised an SQLAlchemyError
Contents(notes) == [j \in DOMAIN notes |-> notes[j].content]
get_notes(user_id) == {Contents(store[user_id]), <<>>}

DialogKeeps ==
  UNCHANGED <<config, running, loops, disp, user_reminder_times, now, cli, tst, rs,
              result, last_call, note_owner, boot>>

\* NotesBot.clear_command: one button per note, labelled with its content and
\* carrying callback_data "delete_<position>"; shown keeps the rows the listing
\* was built from
ClearCommand(user_id) ==
  /\ \E notes \in get_notes(user_id) :
       dialog' = IF notes = <<>>
                 THEN [NoDialog EXCEPT !.user = user_id, !.reply = "no notes"]
                 ELSE [NoDialog EXCEPT !.pc = "listed", !.user = user_id,
                                       !.shown = store[user_id]]
  /\ UNCHANGED store
  /\ DialogKeeps

\* NotesBot.button_callback for "delete_<note_index>": the notes are read again,
\* deleted_note is the content at note_index of that list, delete_note_by_index
\* removes the row at note_index, and the message with the buttons is replaced
\* by the answer
ButtonCallback(note_index, db_ok) ==
  /\ dialog.pc = "listed"
  /\ note_index \in 0 .. (Len(dialog.shown) - 1)
  /\ \E notes \in get_notes(dialog.user) :
       IF 0 <= note_index /\ note_index < Len(notes)
       THEN LET rows == store[dialog.user]
                deleted_note == notes[note_index + 1]
            IN IF db_ok
               THEN /\ store' = [store EXCEPT ![dialog.user] =
                                   SubSeq(rows, 1, note_index)
                                     \o SubSeq(rows, note_index + 2, Len(rows))]
                    /\ dialog' = [dialog EXCEPT !.pc = "answered",
                                                !.pressed = note_index,
                                                !.reported = <<deleted_note>>,
                                                !.removed = <<rows[note_index + 1]>>,
                                                !.reply = "deleted"]
               ELSE /\ store' = store
                    /\ dialog' = [dialog EXCEPT !.pc = "answered",
                                                !.pressed = note_index,
                                                !.reply = "failed"]
       ELSE /\ store' = store
            /\ dialog' = [dialog EXCEPT !.pc = "answered", !.pressed = note_index,
                                        !.reply = "invalid"]
  /\ DialogKeeps

NextButton ==
  \/ \E u \in Users :
       \/ ClearCommand(u)
       \/ SaveNote(u)
       \/ ClearNotes(u)
       \/ \E index \in 0..(MaxNotes - 1) : DeleteNoteByIndex(u, index)
  \/ \E note_index \in 0..(MaxNotes - 1), db_ok \in BOOLEAN :
       ButtonCallback(note_index, db_ok)

SpecButton == InitStore /\ [][NextButton]_vars

\* SpecRetry: the storage methods called through retry_db_operation, the database
\* failing or answering at each attempt.
\* what the database does at one attempt: it answers, the connection fails
\* (OperationalError, DisconnectionError), or it raises another SQLAlchemyError
DbFaults == {"none", "connection", "other"}
RetryAttempts == 3
RetryDelay == 1
RetriedOps == {"save_note", "get_notes_with_metadata"}

\* The body of a decorated method at one attempt: `except SQLAlchemyError` inside
\* the method catches the connection errors too (they are subclasses of it), logs,
\* and returns the failure value: False, or the empty list. Nothing is raised.
BodyOutcome(op, fault) ==
  [raised |-> "none",
   value |-> IF op = "save_note" THEN (IF fault = "none" THEN "True" ELSE "False")
             ELSE (IF fault = "none" THEN "rows" ELSE "[]")]

RECURSIVE Wrapper(_, _, _, _)
\* wrapper of retry_db_operation from attempt `attempt` (counted from 0) on:
\* the attempts made, the delays slept, what it raised and what it returned
Wrapper(op, faults, attempt, delays) ==
  LET out == BodyOutcome(op, faults[attempt + 1])
  IN IF out.raised = "none"
     THEN [attempts |-> attempt + 1, delays |-> delays, raised |-> "none",
           value |-> out.value]
     ELSE IF out.raised = "connection" /\ attempt < RetryAttempts - 1
     THEN Wrapper(op, faults, attempt + 1, Append(delays, RetryDelay * (2 ^ attempt)))
     ELSE [attempts |-> attempt + 1, delays |-> delays, raised |-> out.raised,
           value |-> "none"]

\* a call of save_note(user_id, ...) or get_notes_with_metadata(user_id) through
\* the decorator; a save that returns True has added the row
RetryCall(user_id, op, faults) ==
  LET out == Wrapper(op, faults, 0, <<>>)
      saved == op = "save_note" /\ out.value = "True"
  IN /\ saved => Len(store[user_id]) < MaxNotes /\ NextNoteId <= MaxNotes + 1
     /\ store' = IF saved
                 THEN [store EXCEPT ![user_id] = <<Note(NextNoteId, "text", "nokey")>> \o @]
                 ELSE store
     /\ note_owner' = IF saved THEN (NextNoteId :> user_id) @@ note_owner ELSE note_owner
     /\ result' = <<[by |-> op, user |-> user_id, faults |-> faults, out |-> out]>>
     /\ UNCHANGED <<config, running, loops, disp, user_reminder_times, now, cli, tst, rs,
                    last_call, dialog, boot>>

NextRetry ==
  \E u \in Users, op \in RetriedOps, faults \in [1..RetryAttempts -> DbFaults] :
    RetryCall(u, op, faults)

SpecRetry == InitStore /\ [][NextRetry]_vars


\* SpecSingle: the single-user ReminderScheduler over a FileStorage, on a reminder
\* day before the window, started, stopped and started again while time passes
SingleFiles ==
  {[RsIdle EXCEPT !.chat_id = c, !.notes = n] :
     c \in {"", "c1"}, n \in {<<>>, <<"a">>, <<"a", "b">>}}

InitSingle ==
  /\ running = FALSE
  /\ loops = <<>>
  /\ disp = <<>>
  /\ user_reminder_times = <<>>
  /\ tst = TestIdle
  /\ rs \in SingleFiles
  /\ result = NoResult
  /\ last_call = NoCall
  /\ dialog = NoDialog
  /\ boot = BootInit
  /\ config = SchedConfig(1)
  /\ now = At(1, 8, 30)
  /\ store \in OwnStores
  /\ note_owner = OwnersOf(store)
  /\ cli = "created"

NextSingle ==
  \/ RS_Start
  \/ RS_Stop
  \/ RS_Tick
  \/ \E k \in DOMAIN rs.threads :
       \/ RS_LoopTop(k)
       \/ RS_HandleReminderDay(k)
       \/ RS_Poll(k)
       \/ RS_SleepReturn(k)
       \/ RS_Send(k)

SpecSingle == InitSingle /\ [][NextSingle]_vars

\* SpecOff: the scheduler as NotesBot runs it, on a first of the month that is a
\* reminder day (interval 1) and on one that is not (interval 2 and more)
OffStarts ==
  {<<SchedConfig(1), At(1, 8, 30)>>} \cup
  {<<SchedConfig(n), At(1, 21, 30)>> : n \in 2..MaxInterval}

InitOff ==
  /\ SchedulerInit
  /\ \E st \in OffStarts : config = st[1] /\ now = st[2]
  /\ store \in OwnStores
  /\ note_owner = OwnersOf(store)
  /\ cli = "created"

SpecOff == InitOff /\ [][Next]_vars

\* SpecBoot: main() and its restart loop; the run of the bot is one step whose
\* outcome is a normal return of bot.start(), a KeyboardInterrupt, or an exception
BootOutcomes == {"normal", "interrupt", "crash"}

BootKeeps ==
  UNCHANGED <<config, running, loops, disp, user_reminder_times, store, now, cli, tst, rs,
              result, last_call, note_owner, dialog>>

\* a back-off that doubles without limit
Backoff_NoCap(retry_delay) == retry_delay * 2

\* `retry_delay = min(retry_delay * 2, 300)`
Backoff(retry_delay) ==
  IF retry_delay * 2 < MaxRetryDelay THEN retry_delay * 2 ELSE MaxRetryDelay

\* one pass of the try block and its except clauses, up to time.sleep
BootAttempt(outcome) ==
  /\ boot.pc = "attempt"
  /\ boot' =
       IF ~Validate(config)
       THEN [boot EXCEPT !.pc = "exited", !.ended = "invalid", !.status = "1"]
       ELSE IF outcome \in {"normal", "interrupt"}
       THEN [boot EXCEPT !.starts = @ + 1, !.pc = "returned", !.ended = outcome,
                         !.status = "0"]
       ELSE IF boot.attempt < MaxRetries - 1
       THEN [boot EXCEPT !.starts = @ + 1, !.crashes = @ + 1, !.ended = outcome,
                         !.pc = "waiting"]
       ELSE [boot EXCEPT !.starts = @ + 1, !.crashes = @ + 1, !.ended = outcome,
                         !.pc = "exited", !.status = "1"]
  /\ BootKeeps

\* time.sleep(retry_delay) returns, the delay is doubled and the for loop goes to
\* its next attempt; or a KeyboardInterrupt arrives during the sleep, inside the
\* except clause, and leaves main() uncaught
BootWait(interrupted) ==
  /\ boot.pc = "waiting"
  /\ boot' =
       IF interrupted
       THEN [boot EXCEPT !.pc = "killed", !.ended = "interrupt"]
       ELSE [boot EXCEPT !.waits = Append(@, boot.retry_delay),
                         !.retry_delay = Backoff(@),
                         !.attempt = @ + 1,
                         !.pc = "attempt"]
  /\ BootKeeps

InitBoot ==
  /\ SchedulerInit
  /\ config \in MainConfigs
  /\ now = At(1, 8, 30)
  /\ store \in ApiStores
  /\ note_owner = OwnersOf(store)
  /\ cli = "main"

NextBoot ==
  \/ \E outcome \in BootOutcomes : BootAttempt(outcome)
  \/ \E interrupted \in BOOLEAN : BootWait(interrupted)

SpecBoot == InitBoot /\ [][NextBoot]_vars

\* SpecRestart: the scheduler restarted while its control loop is inside the
\* reminder-day procedure, at one instant before the window.
InitRestart ==
  /\ SchedulerInit
  /\ config = SchedConfig(1)
  /\ now = At(1, 8, 30)
  /\ store \in ApiStores
  /\ note_owner = OwnersOf(store)
  /\ cli = "idle"

\* the caller stops the scheduler while its control loop is outside
\* _sleep_with_check (stop()'s join then times out) and starts it again; the
\* control loops run in full, a dispatcher is followed through its start
NextRestart ==
  \/ (~running /\ Start)
  \/ (running /\ ThreadAlive /\ ~InSleep(loops[Len(loops)]) /\ Stop)
  \/ StopReturn
  \/ \E l \in DOMAIN loops :
       \/ LoopTop(l)
       \/ RdUsers(l)
       \/ RdFetch(l)
       \/ RdSched(l)
       \/ LoopPoll(l)
       \/ LoopSleepReturn(l)
  \/ \E i \in DOMAIN disp : DispStart(i)

SpecRestart == InitRestart /\ [][NextRestart]_vars

\* SpecLive: the scheduler NotesBot started before the window of a reminder day
\* and never stops; the day after is not a reminder day, and the clock is
\* followed to the end of it, so that a send time moved to the next day is
\* reached. Every thread is an operating-system thread that keeps being
\* scheduled, and the clock keeps advancing.
LiveStores == OwnStores \cup ApiStores
LiveDay == MaxDay + 1

TickLive ==
  /\ \E t \in WakeTimes : t > now /\ DayOfMonth(t) <= LiveDay + 1 /\ now' = t
  /\ UNCHANGED <<running, loops, disp, user_reminder_times, cli>>
  /\ SchedulerKeeps

InitLive ==
  /\ SchedulerInit
  /\ config = SchedConfig(LiveDay)
  /\ now = At(LiveDay, 8, 30)
  /\ store \in LiveStores
  /\ note_owner = OwnersOf(store)
  /\ cli = "created"

\* the steps of control loop l and of dispatcher i
LoopSteps(l) ==
  /\ l \in DOMAIN loops
  /\ \/ LoopTop(l)
     \/ RdUsers(l)
     \/ RdFetch(l)
     \/ RdSched(l)
     \/ LoopPoll(l)
     \/ LoopSleepReturn(l)

DispSteps(i) ==
  /\ i \in DOMAIN disp
  /\ \/ DispStart(i)
     \/ DispPoll(i)
     \/ DispSleepReturn(i)
     \/ DispSend(i)

NextLive ==
  \/ BotStart
  \/ TickLive
  \/ \E l \in 1..MaxLoops : LoopSteps(l)
  \/ \E i \in 1..MaxDisp : DispSteps(i)

SpecLive ==
  /\ InitLive
  /\ [][NextLive]_vars
  /\ WF_vars(BotStart)
  /\ WF_vars(TickLive)
  /\ \A l \in 1..MaxLoops : WF_vars(LoopSteps(l))
  /\ \A i \in 1..MaxDisp : WF_vars(DispSteps(i))

\* SpecLate: the scheduler NotesBot started inside the window of a reminder day
\* whose next day is not one; the clock is followed to the end of that next day.
InitLate ==
  /\ SchedulerInit
  /\ config = SchedConfig(LiveDay)
  /\ now = At(LiveDay, 9, 30)
  /\ store \in LiveStores
  /\ note_owner = OwnersOf(store)
  /\ cli = "created"

NextLate ==
  \/ BotStart
  \/ TickLive
  \/ Threads

SpecLate == InitLate /\ [][NextLate]_vars

\* SpecFail: the scheduler NotesBot started before the window of a reminder day,
\* every user holding a note, where scheduling a user may raise.
InitFail ==
  /\ SchedulerInit
  /\ config = SchedConfig(1)
  /\ now = At(1, 8, 30)
  /\ store \in OwnStores
  /\ note_owner = OwnersOf(store)
  /\ cli = "created"

NextFail ==
  \/ BotStart
  \/ Tick
  \/ Threads
  \/ \E l \in DOMAIN loops : RdFetchRaises(l) \/ RdStartRaises(l)

SpecFail == InitFail /\ [][NextFail]_vars

\* ------------------------------------------------------------- properties
Divides(n, d) == \E k \in 0..31 : d = k * n

\* C1: for every interval_days N >= 1 and every day of the month d, a control loop
\* (of MultiUserScheduler and of ReminderScheduler) that has made its reminder-day
\* test has gone on to the reminder-day procedure if N divides d, and to the
\* one-hour sleep if it does not.
C1_ReminderDayIffDivisible ==
  LET n == config.reminder_interval_days
      d == DayOfMonth(now)
  IN n >= 1 =>
       /\ \A l \in DOMAIN loops :
            /\ loops[l].pc = "rd_users" => Divides(n, d)
            /\ loops[l].pc = "sleeping" => ~Divides(n, d) /\ loops[l].end = now + 60
       /\ \A k \in DOMAIN rs.threads :
            /\ rs.threads[k].pc = "rd" => Divides(n, d)
            /\ rs.threads[k].pc = "sleeping"
                 => ~Divides(n, d) /\ rs.threads[k].end = now + 60

\* interval 2: day 10 is a reminder day for both loops
C1_Witness ==
  /\ config.reminder_interval_days = 2
  /\ DayOfMonth(now) = 10
  /\ loops # <<>> /\ loops[1].pc = "rd_users"
  /\ rs.threads # <<>> /\ rs.threads[1].pc = "rd"

\* interval 2: day 11 is not
C1_WitnessNot ==
  /\ config.reminder_interval_days = 2
  /\ DayOfMonth(now) = 11
  /\ loops # <<>> /\ loops[1].pc = "sleeping"
  /\ rs.threads # <<>> /\ rs.threads[1].pc = "sleeping"

\* C2: every send time computed lies in the window (start hour <= its hour <= end
\* hour, minute 0..59), at the drawn clock time, strictly after the scheduling
\* instant; it is on the next calendar day exactly when the drawn time of day is
\* not after the scheduling instant, and on the same day otherwise.
C2_FireAtInWindowAndFuture ==
  result # <<>> =>
    LET r == result[1]
        f == r.send_time
    IN /\ config.reminder_start_hour <= HourOf(f)
       /\ HourOf(f) <= config.reminder_end_hour
       /\ MinuteOf(f) \in 0..59
       /\ HourOf(f) = r.hour /\ MinuteOf(f) = r.minute
       /\ f > now
       /\ DayOfMonth(f) = IF r.hour * 60 + r.minute <= now % 1440
                          THEN DayOfMonth(now) + 1
                          ELSE DayOfMonth(now)

\* scheduling at 21:00 with the window [8, 20]: the send time is on the next day
C2_Witness ==
  /\ HourOf(now) = 21 /\ MinuteOf(now) = 0
  /\ config.reminder_start_hour = 8 /\ config.reminder_end_hour = 20
  /\ result # <<>>
  /\ result[1].by = "MultiUserScheduler"
  /\ DayOfMonth(result[1].send_time) = DayOfMonth(now) + 1

\* the calls of a delivery made through the capability cap / through another one
TextCalls(calls) == {k \in DOMAIN calls : calls[k].cap = "send_message"}
TypedCalls(calls) == {k \in DOMAIN calls : calls[k].cap # "send_message"}

\* C7: when the note chosen is an image whose file_path is missing, empty or names
\* no existing file, the delivery makes exactly one call, a send_message whose text
\* is the reminder header followed by the note's content, and no send_photo.
C7_ImageWithoutFileSendsText ==
  (/\ tst.selected # <<>>
   /\ tst.selected[1].note_type = "image"
   /\ tst.selected[1].file_path \in {"nokey", "empty", "gone"})
  => /\ Len(tst.calls) = 1
     /\ tst.calls[1].cap = "send_message"
     /\ tst.calls[1].text = <<"Reminder:", tst.selected[1].content>>
     /\ \A k \in DOMAIN tst.calls : tst.calls[k].cap # "send_photo"

\* an image note whose file is gone was delivered
C7_Witness ==
  /\ tst.pc = "returned"
  /\ tst.selected # <<>>
  /\ tst.selected[1].note_type = "image"
  /\ tst.selected[1].file_path = "gone"
  /\ Len(tst.calls) = 1
  /\ tst.calls[1].ok

\* C8: a finished delivery of a note of a typed kind (image, voice, document,
\* video, audio) attempted the typed capability at most once; when the media was
\* not resolvable or the typed send failed, it ended with exactly one send_message,
\* whose text is the header and content that the typed send carries as caption.
C8_TypedFailureFallsBackToText ==
  (/\ tst.pc \in {"done", "returned"}
   /\ tst.selected # <<>>
   /\ tst.selected[1].note_type \in {"image", "voice", "document", "video", "audio"})
  => LET note == tst.selected[1]
         calls == tst.calls
         message == <<"Reminder:", note.content>>
     IN /\ Cardinality(TypedCalls(calls)) <= 1
        /\ \A k \in DOMAIN calls : calls[k].text = message
        /\ note.file_path # "ok" => TypedCalls(calls) = {}
        /\ (note.file_path # "ok" \/ \E k \in TypedCalls(calls) : ~calls[k].ok)
             => /\ Cardinality(TextCalls(calls)) = 1
                /\ calls[Len(calls)].cap = "send_message"

\* a voice note whose send_voice failed was delivered as text
C8_Witness ==
  /\ tst.pc = "returned"
  /\ tst.selected # <<>>
  /\ tst.selected[1].note_type = "voice"
  /\ Len(tst.calls) = 2
  /\ tst.calls[1].cap = "send_voice" /\ ~tst.calls[1].ok
  /\ tst.calls[2].cap = "send_message" /\ tst.calls[2].ok

\* the capability of each kind of note
CapabilityOf ==
  [text |-> "send_message", image |-> "send_photo", voice |-> "send_voice",
   document |-> "send_document", video |-> "send_video", audio |-> "send_audio"]

\* C9: once a delivery has chosen its note, its first call is the capability of the
\* note's kind when the kind is text or the media file opens; for a kind the code
\* does not know, and for a note without a kind, the delivery is exactly one
\* send_message and no typed call.
C9_FirstCallMatchesKind ==
  (tst.selected # <<>> /\ tst.pc \in {"done", "returned"})
  => LET note == tst.selected[1]
         calls == tst.calls
     IN /\ (note.note_type = "text" \/ (note.note_type \in TypedKinds /\ note.file_path = "ok"))
             => calls # <<>> /\ calls[1].cap = CapabilityOf[note.note_type]
        /\ note.note_type \notin (TypedKinds \cup {"text"})
             => Len(calls) = 1 /\ calls[1].cap = "send_message"

\* an audio note with its file went out through send_audio
C9_Witness ==
  /\ tst.pc = "returned"
  /\ tst.selected # <<>>
  /\ tst.selected[1].note_type = "audio"
  /\ tst.selected[1].file_path = "ok"
  /\ tst.calls = <<[cap |-> "send_audio", text |-> <<"Reminder:", tst.selected[1].content>>,
                    ok |-> TRUE]>>

\* a note of an unknown kind went out as text
C9_WitnessUnknown ==
  /\ tst.pc = "returned"
  /\ tst.selected # <<>>
  /\ tst.selected[1].note_type = "sticker"
  /\ Len(tst.calls) = 1 /\ tst.calls[1].cap = "send_message"

\* C6: the step of the control loop that schedules a user whose note list came
\* back empty writes nothing into _user_reminder_times, starts no dispatcher and
\* makes no Notification Sender call.
C6_EmptyNotesSkipped ==
  [][\A l \in DOMAIN loops :
       (/\ loops[l].pc = "rd_sched"
        /\ loops[l].notes = <<>>
        /\ loops'[l] # loops[l])
       => /\ user_reminder_times' = user_reminder_times
          /\ disp' = disp
          /\ tst' = tst]_vars

\* the first of two users was scheduled with an empty note list: the loop is at the
\* second user, the table is empty and there is no dispatcher
C6_Witness ==
  \E l \in DOMAIN loops :
    /\ loops[l].pc = "rd_fetch"
    /\ loops[l].idx = 2
    /\ loops[l].users[1] \notin DOMAIN user_reminder_times
    /\ \A i \in DOMAIN disp : disp[i].user # loops[l].users[1]

\* the calls of one dispatch: at most two, at most one send_message and at most one
\* typed call, every text the same, the send_message last; a dispatch whose
\* send_message failed has ended
DispatchCallsBounded(d) ==
  /\ Len(d.calls) <= 2
  /\ Cardinality(TextCalls(d.calls)) <= 1
  /\ Cardinality(TypedCalls(d.calls)) <= 1
  /\ \A k \in TextCalls(d.calls) :
       /\ k = Len(d.calls)
       /\ ~d.calls[k].ok => d.pc = "done" /\ d.outcome = "failed"

\* a step in which dispatcher i has a call fail changes nothing but that dispatcher
FailureContained(i) ==
  (/\ Len(disp'[i].calls) = Len(disp[i].calls) + 1
   /\ ~disp'[i].calls[Len(disp'[i].calls)].ok)
  => /\ loops' = loops
     /\ running' = running
     /\ user_reminder_times' = user_reminder_times
     /\ \A j \in DOMAIN disp : j # i => disp'[j] = disp[j]
     /\ disp'[i].pc \in {"fallback", "done"}

\* C10: within one dispatch nothing is retried (send_message at most once, one
\* typed capability at most once, two calls at most), nothing is sent after a
\* failed send_message, and a failing call changes neither the control loop nor
\* another dispatcher.
C10_NoRetryFailureContained ==
  /\ [](\A i \in DOMAIN disp : DispatchCallsBounded(disp[i]))
  /\ [][\A i \in DOMAIN disp : FailureContained(i)]_vars

\* a dispatch whose typed send and whose fallback both failed has ended, while the
\* control loop is alive and the other dispatcher delivered
C10_Witness ==
  /\ running
  /\ ThreadAlive
  /\ \E i, j \in DOMAIN disp :
       /\ disp[i].pc = "done"
       /\ Len(disp[i].calls) = 2
       /\ ~disp[i].calls[1].ok /\ ~disp[i].calls[2].ok
       /\ disp[i].outcome = "failed"
       /\ j # i
       /\ disp[j].outcome = "sent"

\* C3: a dispatcher that was sleeping before its send time when stop() was called
\* makes no Notification Sender call afterwards.
C3_StoppedDispatchersSendNothing ==
  [][\A i \in DOMAIN disp :
       disp[i].cancel \in {"signaled", "missed"} => disp'[i].calls = disp[i].calls]_vars

\* C4: a thread that was inside _sleep_with_check when stop() cleared the flag does
\* not go on sleeping after its next poll, and its sleep does not return True.
C4_SignaledSleepEndsFalse ==
  /\ \A l \in DOMAIN loops : loops[l].cancel # "missed"
  /\ \A i \in DOMAIN disp :
       /\ disp[i].cancel # "missed"
       /\ disp[i].cancel = "signaled" => disp[i].ret # "True"

\* C5: _sleep_with_check returns True only when the requested duration has elapsed
\* and no cancellation was signaled before that.
C5_TrueOnlyAfterFullSleep ==
  [][\A i \in DOMAIN disp :
       (disp[i].pc = "sl_ret" /\ disp'[i].pc # "sl_ret" /\ disp'[i].ret = "True")
       => now >= disp[i].end /\ disp[i].cancel \notin {"signaled", "missed"}]_vars

\* the users with a dispatcher that has not ended
PendingUsers == {u \in Users : \E i \in DOMAIN disp : disp[i].user = u /\ disp[i].pc # "done"}

\* C11: the scheduled_reminders value get_scheduler_stats reports is the number of
\* users with a recorded reminder that has neither fired nor been cancelled.
C11_StatsCountPendingReminders ==
  [][(result' # result /\ result'[1].by = "get_scheduler_stats")
     => result'[1].value.scheduled_reminders = Cardinality(PendingUsers)]_vars

\* C20: a call of get_scheduler_stats or get_next_reminder_time changes neither the
\* schedule table, the running flag, the threads nor the notes table; the running
\* value reported is the flag at the call, the count is the size of the table, the
\* time is the table's entry for the user.
C20_IntrospectionHasNoEffect ==
  [][result' # result =>
       /\ UNCHANGED <<user_reminder_times, running, loops, disp, store, tst, rs>>
       /\ result'[1].by = "get_scheduler_stats" =>
            /\ result'[1].value.running = running
            /\ result'[1].value.scheduled_reminders = Cardinality(DOMAIN user_reminder_times)
       /\ result'[1].by = "get_next_reminder_time" =>
            result'[1].value =
              IF result'[1].user \in DOMAIN user_reminder_times
              THEN <<user_reminder_times[result'[1].user]>> ELSE <<>>]_vars

\* get_scheduler_stats was called after stop(), with a user in the table
C20_Witness ==
  /\ result # <<>>
  /\ result[1].by = "get_scheduler_stats"
  /\ ~result[1].value.running
  /\ last_call.op = "stop"
  /\ result[1].value.scheduled_reminders = 1
  /\ Len(disp) = 1

\* C12: a call of start() that finds the scheduler running changes nothing of the
\* scheduler; a control loop is launched only by a start() that found it stopped,
\* one per call, so start() after start() launches none.
C12_StartIdempotent ==
  [][/\ (last_call' # last_call /\ last_call'.op = "start" /\ last_call'.was_running)
          => UNCHANGED <<running, loops, disp, user_reminder_times, cli>>
     /\ Len(loops') # Len(loops)
          => /\ ~running /\ running'
             /\ loops' = Append(loops, NewLoop)
             /\ last_call' = [op |-> "start", was_running |-> FALSE]
     /\ (last_call.op = "start" /\ last_call'.op = "start") => Len(loops') = Len(loops)]_vars

\* start() was called on the running scheduler: there is one control loop
C12_Witness ==
  /\ last_call = [op |-> "start", was_running |-> TRUE]
  /\ running
  /\ Len(loops) = 1
  /\ loops[1].pc # "exit"

\* the lifecycle of the controller: RUNNING while the flag is set, STOPPING while
\* the stop() that cleared it waits in the join, STOPPED otherwise
Lifecycle ==
  IF running THEN "RUNNING"
  ELSE IF cli = "joining" /\ last_call.was_running THEN "STOPPING"
  ELSE "STOPPED"

\* C13: under calls of start() and stop() in any order the lifecycle changes only
\* from STOPPED to RUNNING (by start), from RUNNING to STOPPING (by stop) and from
\* STOPPING to STOPPED (the join returned); stop() never leaves the scheduler
\* RUNNING, and on a STOPPED scheduler it leaves it STOPPED.
C13_LifecycleTransitions ==
  [][/\ Lifecycle' # Lifecycle =>
          \/ /\ Lifecycle = "STOPPED" /\ Lifecycle' = "RUNNING"
             /\ last_call' = [op |-> "start", was_running |-> FALSE]
          \/ /\ Lifecycle = "RUNNING" /\ Lifecycle' = "STOPPING"
             /\ last_call' = [op |-> "stop", was_running |-> TRUE]
          \/ /\ Lifecycle = "STOPPING" /\ Lifecycle' = "STOPPED"
             /\ last_call' = last_call
     /\ (last_call' # last_call /\ last_call'.op = "stop") => Lifecycle' # "RUNNING"
     /\ (last_call' # last_call /\ last_call' = [op |-> "stop", was_running |-> FALSE])
          => Lifecycle = "STOPPED" /\ Lifecycle' = "STOPPED"]_vars

\* stop() was called on a stopped scheduler whose control loop had been started
C13_Witness ==
  /\ last_call = [op |-> "stop", was_running |-> FALSE]
  /\ Lifecycle = "STOPPED"
  /\ loops # <<>>

\* C14: a run of the reminder-day procedure goes once through the users that have
\* notes when it asks for them, in one pass; for each it starts one dispatcher,
\* with the notes fetched, when these are not empty, and none when they are; no
\* dispatcher is started in any other step.
C14_OneDispatcherPerUserWithNotes ==
  [][/\ \A l \in DOMAIN loops :
          /\ (loops[l].pc = "rd_users" /\ loops'[l].pc = "rd_fetch")
               => /\ Range(loops'[l].users) = {u \in Users : store[u] # <<>>}
                  /\ Len(loops'[l].users) = Cardinality(Range(loops'[l].users))
                  /\ loops'[l].idx = 1
          /\ (loops[l].pc = "rd_fetch" /\ loops'[l] # loops[l])
               => /\ loops'[l].users = loops[l].users /\ loops'[l].idx = loops[l].idx
                  /\ loops'[l].notes \in {store[loops[l].users[loops[l].idx]], <<>>}
          /\ (loops[l].pc = "rd_sched" /\ loops'[l] # loops[l])
               => /\ IF loops[l].notes # <<>>
                     THEN /\ Len(disp') = Len(disp) + 1
                          /\ \A i \in DOMAIN disp : disp'[i] = disp[i]
                          /\ disp'[Len(disp')].user = loops[l].users[loops[l].idx]
                          /\ disp'[Len(disp')].notes = loops[l].notes
                          /\ disp'[Len(disp')].pc = "start"
                     ELSE disp' = disp
                  /\ IF loops[l].idx < Len(loops[l].users)
                     THEN /\ loops'[l].pc = "rd_fetch"
                          /\ loops'[l].idx = loops[l].idx + 1
                          /\ loops'[l].users = loops[l].users
                     ELSE InSleep(loops'[l])
     /\ Len(disp') # Len(disp)
          => \E l \in DOMAIN loops : loops[l].pc = "rd_sched" /\ loops'[l] # loops[l]]_vars

\* the procedure has run over two users with notes: one dispatcher each
C14_Witness ==
  /\ Len(disp) = 2
  /\ disp[1].user = "u1" /\ disp[2].user = "u2"
  /\ \A u \in Users : store[u] # <<>>
  /\ \E l \in DOMAIN loops : InSleep(loops[l]) /\ loops[l].end = Midnight(now) + 1440

C15_WitnessMidnight ==
  /\ running
  /\ disp # <<>>
  /\ \E l \in DOMAIN loops :
       loops[l].pc = "sleeping" /\ loops[l].end = Midnight(now) + 1440 /\ now < loops[l].end

\* C16: when an iteration of a control loop raises (here ZeroDivisionError, the
\* interval being 0) while the scheduler runs, the loop goes into a five-minute
\* sleep with the flag still set, comes back to the test of the flag after it,
\* and ends only when stop() has cleared the flag.
C16_LoopSurvivesError ==
  [][/\ \A l \in DOMAIN loops :
          /\ (loops[l].pc = "top" /\ running /\ loops'[l] # loops[l])
               => /\ loops'[l].pc = "sleeping"
                  /\ loops'[l].end = now + 5
                  /\ running'
          /\ (loops[l].pc = "sl_ret" /\ loops'[l].pc # "sl_ret") => loops'[l].pc = "top"
          /\ (loops[l].pc # "exit" /\ loops'[l].pc = "exit")
               => ~running /\ last_call.op = "stop"
     /\ \A k \in DOMAIN rs.threads :
          (rs.threads[k].pc = "top" /\ rs.running /\ rs' # rs)
            => /\ rs'.threads[k].pc = "sleeping"
               /\ rs'.threads[k].end = now + 5
               /\ rs'.running]_vars

\* the loop is back at the test of the flag five minutes after an iteration raised
C16_Witness ==
  /\ config.reminder_interval_days = 0
  /\ running
  /\ now = At(1, 8, 35)
  /\ loops # <<>> /\ loops[1].pc = "top"

\* C17: the note a dispatcher delivers is an element of the list that was
\* fetched for its user when the reminder was scheduled: the control loop reads
\* the notes table once, hands that list to the dispatcher it spawns, the
\* dispatcher keeps it unchanged whatever is saved, deleted or cleared
\* meanwhile, and random.choice draws from it.
C17_DeliversFromScheduledSnapshot ==
  [][/\ \A l \in DOMAIN loops :
          /\ (loops[l].pc = "rd_fetch" /\ loops'[l].pc = "rd_sched")
               => loops'[l].notes \in {store[loops[l].users[loops[l].idx]], <<>>}
          /\ (loops[l].pc = "rd_sched" /\ loops'[l].pc = "rd_sched")
               => loops'[l].notes = loops[l].notes
     /\ Len(disp') > Len(disp)
          => \E l \in DOMAIN loops :
               /\ loops[l].pc = "rd_sched" /\ loops'[l] # loops[l]
               /\ disp'[Len(disp')].notes = loops[l].notes
               /\ disp'[Len(disp')].user = loops[l].users[loops[l].idx]
     /\ \A i \in DOMAIN disp :
          /\ disp'[i].pc # "done" => disp'[i].notes = disp[i].notes
          /\ (disp[i].selected = <<>> /\ disp'[i].selected # <<>>)
               => disp'[i].selected[1] \in Range(disp[i].notes)]_vars

\* a dispatcher delivered a note that had been deleted, while the user's table
\* held a note saved after the scheduling
C17_Witness ==
  \E i \in DOMAIN disp :
    /\ disp[i].pc = "done" /\ disp[i].outcome = "sent"
    /\ disp[i].selected # <<>>
    /\ store[disp[i].user] # <<>>
    /\ disp[i].selected[1] \notin Range(store[disp[i].user])

\* C18: with reminder_start_hour >= reminder_end_hour, or either hour outside
\* 0..23, Config.validate returns False and main() ends the process from the
\* validation: no bot is created, start() is never called, no control loop
\* exists, and main() does not go round its retry loop.
BadWindow(cfg) ==
  \/ cfg.reminder_start_hour >= cfg.reminder_end_hour
  \/ cfg.reminder_start_hour \notin 0..23
  \/ cfg.reminder_end_hour \notin 0..23

C18_BadWindowNeverStarts ==
  [][BadWindow(config)
       => /\ ~Validate(config)
          /\ cli = "main" /\ cli' \in {"main", "exited"}
          /\ ~running' /\ loops' = <<>> /\ last_call' = NoCall]_vars

\* main() exited on a configuration whose only fault is start hour = end hour
C18_Witness ==
  /\ cli = "exited"
  /\ config.bot_token = "token" /\ config.database_url # ""
  /\ config.reminder_start_hour = 10 /\ config.reminder_end_hour = 10
  /\ config.reminder_interval_days = 1

\* C19: every configuration the scheduler runs with has
\* reminder_interval_days >= 1.
C19_IntervalAtLeastOne ==
  (loops # <<>> \/ running) => config.reminder_interval_days >= 1

\* C21: every note a thread holds for a user, and every note it chose to send to
\* that user, is a row of the notes table whose user_id is that user: this holds
\* for the list the control loop fetched, for each dispatcher and for
\* send_test_reminder, whatever the users save, delete and clear.
OwnedBy(user_id, notes) == \A n \in Range(notes) : note_owner[n.id] = user_id

C21_DeliversOwnNotesOnly ==
  /\ \A l \in DOMAIN loops :
       loops[l].pc = "rd_sched" => OwnedBy(loops[l].users[loops[l].idx], loops[l].notes)
  /\ \A i \in DOMAIN disp :
       OwnedBy(disp[i].user, disp[i].notes) /\ OwnedBy(disp[i].user, disp[i].selected)
  /\ OwnedBy(tst.user, tst.notes) /\ OwnedBy(tst.user, tst.selected)

\* both users were sent a note by their dispatchers, u2 also by a test reminder,
\* after u1's note had been deleted
C21_Witness ==
  /\ \A u \in Users : \E i \in DOMAIN disp :
       disp[i].user = u /\ disp[i].outcome = "sent" /\ disp[i].selected # <<>>
  /\ tst.user = "u2" /\ tst.ret = "True" /\ tst.selected # <<>>
  /\ store["u1"] = <<>>

\* a dispatcher that has not yet entered _send_reminder
Waiting(d) == d.pc \in {"start", "sleeping", "sl_ret"}

\* C22: no user has two dispatchers waiting for their send time at once.
C22_OneWaitingDispatcherPerUser ==
  \A i, j \in DOMAIN disp :
    (i # j /\ disp[i].user = disp[j].user) => ~(Waiting(disp[i]) /\ Waiting(disp[j]))

\* C23: the step of stop() that clears the flag leaves every dispatcher that is
\* inside _send_reminder as it is, so that it completes its delivery, and no
\* dispatcher that was signaled before its send time ever enters _send_reminder.
C23_StopSignalsOnly ==
  [][/\ (running /\ ~running')
          => \A i \in DOMAIN disp :
               disp[i].pc \in {"send", "fallback", "done"} => disp'[i] = disp[i]
     /\ \A i \in DOMAIN disp :
          disp'[i].pc \in {"send", "fallback"} => disp'[i].cancel \notin {"signaled", "missed"}]_vars

\* C24: send_test_reminder returns True exactly when the reminder was sent; it
\* returns False without a Notification Sender call when the user has no notes.
C24_TestReturnsDeliveryResult ==
  tst.pc = "returned"
    => /\ tst.ret = "True" <=> tst.outcome = "sent"
       /\ tst.ret = "False" /\ tst.outcome = "none" => tst.calls = <<>>

\* C25: get_notes_count and the length of get_notes_with_metadata agree for every
\* user (both queries count the same rows; each gives 0 or [] when it fails), and
\* that number is the number of notes saved and not deleted: a successful
\* save_note adds one to the user's count, a successful delete_note_by_index
\* takes one away, clear_notes makes it 0, and nothing else changes it.
C25_CountIsSavedMinusDeleted ==
  [][\A u \in Users :
       /\ get_notes_count(u)' = {Len(notes) : notes \in get_notes_with_metadata(u)'}
       /\ (\E kf \in StoreKinds : SaveNoteOfKind(u, kf[1], kf[2]))
            => /\ Len(store'[u]) = Len(store[u]) + 1
               /\ Range(store[u]) \subseteq Range(store'[u])
       /\ (\E index \in 0..(MaxNotes - 1) : DeleteNoteByIndex(u, index))
            => /\ Len(store'[u]) = Len(store[u]) - 1
               /\ Range(store'[u]) \subseteq Range(store[u])
       /\ ClearNotes(u) => Len(store'[u]) = 0
       /\ store'[u] # store[u]
            => \/ \E kf \in StoreKinds : SaveNoteOfKind(u, kf[1], kf[2])
               \/ \E index \in 0..(MaxNotes - 1) : DeleteNoteByIndex(u, index)
               \/ ClearNotes(u)]_vars

\* u2, who started without a row, saved MaxNotes notes of different kinds and
\* they are all counted; u1 deleted the only note
C25_Witness ==
  /\ Len(store["u2"]) = MaxNotes
  /\ Cardinality({n.note_type : n \in Range(store["u2"])}) = MaxNotes
  /\ Len(store["u2"]) \in get_notes_count("u2")
  /\ store["u1"] = <<>>

\* C26: a successful clear_notes(u) leaves u with a count of 0 and out of
\* get_all_user_ids, and leaves the rows of every other user as they were.
C26_ClearIsLocal ==
  [][\A u \in Users :
       ClearNotes(u)
         => /\ get_notes_count(u)' = {0}
            /\ u \notin Range(get_all_user_ids')
            /\ \A v \in Users \ {u} : store'[v] = store[v]]_vars

\* u1's notes were cleared while u2 holds MaxNotes notes
C26_Witness ==
  /\ store["u1"] = <<>>
  /\ 1 \in DOMAIN note_owner /\ note_owner[1] = "u1"
  /\ Len(store["u2"]) = MaxNotes
  /\ get_all_user_ids = <<"u2">>

\* the notes query of the reminder-day procedure returned notes for the user
FetchedFor(u) ==
  \E l \in DOMAIN loops :
    loops[l].pc = "rd_sched" /\ loops[l].users[loops[l].idx] = u /\ loops[l].notes # <<>>

\* a dispatcher of the user went through _send_reminder and called the sender
AttemptedFor(u) ==
  \E i \in DOMAIN disp :
    disp[i].user = u /\ disp[i].pc = "done" /\ disp[i].calls # <<>>

\* C27: when the scheduler runs on a reminder day and is never stopped, every user
\* for whom the reminder-day procedure fetched at least one note eventually gets
\* a delivery attempt, and the run starts one dispatcher for the user, not more.
C27_EveryScheduledUserIsAttempted ==
  /\ \A u \in Users : FetchedFor(u) ~> AttemptedFor(u)
  /\ [](\A u \in Users : Cardinality({i \in DOMAIN disp : disp[i].user = u}) <= 1)

\* both users were attempted, u2 after a typed send that failed
C27_Witness ==
  /\ \A u \in Users : AttemptedFor(u)
  /\ \E i \in DOMAIN disp : disp[i].user = "u2" /\ Len(disp[i].calls) = 2

\* C28: a dispatcher is inside _send_reminder only at or after its send time.
C28_NoDeliveryBeforeSendTime ==
  \A i \in DOMAIN disp :
    disp[i].pc \in {"send", "fallback"} => now >= disp[i].send_time

AboutToWrite(l) == loops[l].pc = "rd_sched" /\ ~SkipUser(loops[l].notes)

C30_OneControlLoop ==
  Cardinality({l \in DOMAIN loops : loops[l].pc # "exit"}) <= 1

\* C31: while the flag is cleared (stop() was called and start() was not called
\* after it), no entry is recorded in the schedule table and no dispatcher is
\* started.
C31_NothingScheduledAfterStop ==
  [][(~running /\ last_call.op = "stop")
       => user_reminder_times' = user_reminder_times /\ Len(disp') = Len(disp)]_vars

\* C32: a dispatcher is inside _send_reminder only on a day that passes the
\* reminder-day test.
C32_DeliveryOnReminderDay ==
  \A i \in DOMAIN disp :
    disp[i].pc \in {"send", "fallback"}
      => IsReminderDay(DayOfMonth(now), config.reminder_interval_days)

\* C33: when _schedule_user_reminder raises for a user, no dispatcher is started
\* for that user and the flag is left alone; the for loop goes to the next user,
\* or, after the last one, the control loop sleeps until the next midnight; a
\* user with notes whose scheduling does not raise gets a dispatcher with the
\* notes fetched, whatever was raised before; the procedure is never left for the
\* five-minute sleep.
C33_SchedulingFailureIsLocal ==
  [][\A l \in DOMAIN loops :
       /\ (loops[l].pc \in {"rd_fetch", "rd_sched"} /\ loops'[l].raised # loops[l].raised)
            => /\ disp' = disp
               /\ running' = running
               /\ loops'[l].raised = loops[l].raised \cup {loops[l].users[loops[l].idx]}
               /\ IF loops[l].idx < Len(loops[l].users)
                  THEN /\ loops'[l].pc = "rd_fetch"
                       /\ loops'[l].idx = loops[l].idx + 1
                       /\ loops'[l].users = loops[l].users
                  ELSE /\ InSleep(loops'[l])
                       /\ loops'[l].end = Midnight(now) + MinutesPerDay
       /\ (/\ loops[l].pc = "rd_sched" /\ loops[l].notes # <<>>
           /\ loops'[l] # loops[l] /\ loops'[l].raised = loops[l].raised)
            => /\ Len(disp') = Len(disp) + 1
               /\ disp'[Len(disp')].user = loops[l].users[loops[l].idx]
               /\ disp'[Len(disp')].notes = loops[l].notes
               /\ disp'[Len(disp')].pc = "start"
       /\ (loops[l].pc \in {"rd_fetch", "rd_sched"} /\ InSleep(loops'[l]))
            => /\ loops'[l].end = Midnight(now) + MinutesPerDay
               /\ loops'[l].end # now + ErrorSleep]_vars

\* scheduling raised for u1, the first user; u2 has its dispatcher, u1 has none,
\* and the control loop sleeps until midnight
C33_Witness ==
  /\ \E l \in DOMAIN loops :
       /\ loops[l].raised = {"u1"}
       /\ loops[l].pc = "sleeping"
       /\ loops[l].end = Midnight(now) + MinutesPerDay
  /\ \E i \in DOMAIN disp : disp[i].user = "u2" /\ disp[i].notes = store["u2"]
  /\ \A i \in DOMAIN disp : disp[i].user # "u1"

C35_DeletesTheNoteShown ==
  dialog.reply = "deleted"
    => /\ dialog.reported = <<dialog.removed[1].content>>
       /\ dialog.removed[1] = dialog.shown[dialog.pressed + 1]

\* C36: a decorated call whose first attempt meets a connection failure is
\* attempted again after 1 second, and a third time after 2 more when the second
\* fails the same way; after three connection failures the failure is reported;
\* a call whose first attempt meets another database error is attempted once and
\* the failure is reported.
C36_ConnectionFailureIsRetried ==
  (result # NoResult /\ result[1].by \in RetriedOps)
    => LET faults == result[1].faults
           out == result[1].out
           failed == out.raised # "none" \/ out.value \in {"False", "[]"}
       IN /\ faults[1] = "connection"
               => out.attempts >= 2 /\ out.delays[1] = RetryDelay
          /\ (faults[1] = "connection" /\ faults[2] = "connection")
               => out.attempts = 3 /\ out.delays = <<RetryDelay, 2 * RetryDelay>>
          /\ (\A k \in 1..RetryAttempts : faults[k] = "connection")
               => out.attempts = RetryAttempts /\ failed
          /\ faults[1] = "other" => out.attempts = 1 /\ failed


\* C37: in the single-user ReminderScheduler an iteration on a reminder day makes
\* at most one sender call, a thread is inside _send_reminder only when its wait
\* for the send time ran to the end (never after a stop() cut it short), and with
\* no stored chat ID or no stored notes nothing is sent and the thread is in the
\* one-hour sleep.
C37_SendsOnceAfterTheWait ==
  \A k \in DOMAIN rs.threads :
    LET th == rs.threads[k]
    IN /\ Len(th.calls) <= 1
       /\ th.pc = "send" => now >= th.send_time
       /\ th.calls # <<>> => th.chat_id # "" /\ th.notes # <<>>
       /\ (th.pc = "sleeping" /\ th.sleep = "hour") => th.calls = <<>>


\* C38: when a control loop of MultiUserScheduler makes its reminder-day test on a
\* day the interval does not divide, the step takes it into the one-hour
\* _sleep_with_check and nowhere else (not to the users query, not to the notes
\* query), no dispatcher is created or changed (so no sender call is made), and the
\* table and the Note Store are unchanged; the steps of that sleep change nothing
\* but the thread's own position, and end at the head of the loop.
C38_OffDayIterationOnlySleeps ==
  [][\A l \in DOMAIN loops :
       /\ ( /\ loops[l].pc = "top"
            /\ running
            /\ config.reminder_interval_days >= 1
            /\ ~Divides(config.reminder_interval_days, DayOfMonth(now))
            /\ loops'[l] # loops[l] )
          => /\ InSleep(loops'[l])
             /\ loops'[l].end = now + HourSleep
             /\ loops'[l].users = <<>> /\ loops'[l].notes = <<>>
             /\ UNCHANGED <<disp, user_reminder_times, store, running, now>>
       /\ ( /\ InSleep(loops[l])
            /\ loops'[l] # loops[l]
            /\ running' = running )
          => /\ loops'[l].pc \in {"sleeping", "sl_ret", "top"}
             /\ UNCHANGED <<disp, user_reminder_times, store, now>>]_vars

\* the first of the month with interval 2: the loop has slept its hour and is back
\* at the head of the loop, with nothing scheduled
C38_Witness ==
  /\ config.reminder_interval_days = 2
  /\ now = At(1, 22, 30)
  /\ running
  /\ loops # <<>> /\ loops[1].pc = "top"
  /\ disp = <<>>
  /\ user_reminder_times = <<>>


\* C39: main() starts the bot at most 10 times; the wait after the k-th crash
\* (k < 10) is min(30 * 2^(k-1), 300) seconds, never more than 300; after a normal
\* return of the bot or a KeyboardInterrupt no further start is made; the 10th
\* crash ends the process with status 1; once main() has ended nothing more
\* happens.
C39_RestartLoopIsBounded ==
  /\ [](/\ boot.starts <= MaxRetries
        /\ boot.crashes <= boot.starts
        /\ Len(boot.waits) <= MaxRetries - 1
        /\ \A k \in DOMAIN boot.waits :
             /\ boot.waits[k] =
                  (IF FirstRetryDelay * 2^(k - 1) < MaxRetryDelay
                   THEN FirstRetryDelay * 2^(k - 1) ELSE MaxRetryDelay)
             /\ boot.waits[k] <= MaxRetryDelay
        /\ boot.pc = "waiting" => boot.crashes = Len(boot.waits) + 1 /\ boot.crashes < MaxRetries
        /\ boot.crashes = MaxRetries => boot.pc = "exited" /\ boot.status = "1"
        /\ boot.ended \in {"normal", "interrupt"} => boot.pc \in {"returned", "killed"})
  /\ [][/\ boot.pc \in {"returned", "killed", "exited"} => boot' = boot
        /\ boot'.starts > boot.starts =>
             /\ boot'.starts = boot.starts + 1
             /\ boot.ended \in {"none", "crash"}
             /\ boot.crashes = boot.starts
             /\ Len(boot.waits) = boot.crashes]_vars

\* ten crashes in a row: nine waits, then exit status 1
C39_Witness ==
  /\ boot.pc = "exited"
  /\ boot.starts = MaxRetries
  /\ boot.crashes = MaxRetries
  /\ boot.waits = <<30, 60, 120, 240, 300, 300, 300, 300, 300>>
  /\ boot.status = "1"

\* the bot stops normally at the third attempt
C39_WitnessStop ==
  /\ boot.pc = "returned"
  /\ boot.ended = "normal"
  /\ boot.starts = 3
  /\ boot.waits = <<30, 60>>

====
